---- MODULE Spec2Model ----
(***************************************************************************)
(* Daily digest bot: the source-hosting collector (GithubCollector), the   *)
(* summarization service (BedrockSummarizer) and the notification          *)
(* formatter (TeamsFormatter).                                             *)
(*                                                                         *)
(* Every public operation is one action.  The configuration, the answers   *)
(* of the external services and the collected data are fixed by Init from  *)
(* small sets; an action applies one operation to them and records the     *)
(* call in the frame variables op, args, ret and calls.                    *)
(* Python strings that the code inspects character by                      *)
(* character (repository lists, commit messages, patches, analysis texts)  *)
(* are sequences of one-character strings; texts that the code only        *)
(* assembles with f-strings are sequences of string fragments whose        *)
(* concatenation is the text, numbers formatted with ToString.  The emoji  *)
(* that start some fixed texts are written as ASCII names in brackets.     *)
(***************************************************************************)
EXTENDS Integers, Sequences, FiniteSets, TLC

VARIABLES
    client,          \* GithubCollector.client is set (a token was configured)
    repos,           \* GithubCollector.repos: GITHUB_REPOS split at commas
    ai_summarizer,   \* GithubCollector.ai_summarizer is set
    enable_flag,     \* ENABLE_PR_ANALYSIS in the process environment
    bedrock,         \* BedrockSummarizer: [client, model_id] are set
    team_name,       \* TeamsFormatter.team_name / the team_name argument
    platform,        \* what the external services answer during this run
    data,            \* the collected data handed to summarizer and formatter
    op,              \* the operation that ran last ("init" before any)
    args,            \* its inputs: arguments and platform responses
    ret,             \* its outcome: a returned value or a raised exception
    calls,           \* the external calls it issued, in order
    last_prompt,     \* the prompt it built (logged or sent), << >> if none
    invoked          \* the methods of its own object it invoked, in order

vars == <<client, repos, ai_summarizer, enable_flag, bedrock, team_name,
          platform, data, op, args, ret, calls, last_prompt, invoked>>

(***************************************************************************)
(* Bounds of the model.                                                    *)
(***************************************************************************)
MaxPulls == 2        \* pull requests listed per repository
MaxCommits == 2      \* commits listed per repository
MaxFiles == 2        \* changed files of an analyzed pull request
MaxItems == 7        \* items per list category handed to the formatter

(***************************************************************************)
(* Python values.                                                          *)
(***************************************************************************)
None == [isNone |-> TRUE]
Some(v) == [isNone |-> FALSE, v |-> v]

EmptyList == << >>
EmptyDict == [k \in {} |-> k]

Return(v) == [kind |-> "return", value |-> v]
Raise(e) == [kind |-> "raise", exc |-> e]

Min(a, b) == IF a < b THEN a ELSE b

\* s[:n]
Take(s, n) == SubSeq(s, 1, Min(n, Len(s)))

RECURSIVE Flatten(_)
Flatten(ss) == IF ss = << >> THEN << >> ELSE Head(ss) \o Flatten(Tail(ss))

(***************************************************************************)
(* Character strings.                                                      *)
(***************************************************************************)
Whitespace == {" ", "\t", "\n"}

UpperToLower ==
    [c \in {"A", "B", "C", "D", "E", "F", "G", "I", "N", "P", "R", "T", "U"} |->
        CASE c = "A" -> "a" [] c = "B" -> "b" [] c = "C" -> "c"
          [] c = "D" -> "d" [] c = "E" -> "e" [] c = "F" -> "f"
          [] c = "G" -> "g" [] c = "I" -> "i" [] c = "N" -> "n"
          [] c = "P" -> "p" [] c = "R" -> "r" [] c = "T" -> "t"
          [] c = "U" -> "u"]

\* str.lower()
Lower(s) ==
    [i \in 1..Len(s) |->
        IF s[i] \in DOMAIN UpperToLower THEN UpperToLower[s[i]] ELSE s[i]]

RECURSIVE LStrip(_)
LStrip(s) ==
    IF s # << >> /\ Head(s) \in Whitespace THEN LStrip(Tail(s)) ELSE s

RECURSIVE RStrip(_)
RStrip(s) ==
    IF s # << >> /\ s[Len(s)] \in Whitespace
    THEN RStrip(SubSeq(s, 1, Len(s) - 1)) ELSE s

\* str.strip()
Strip(s) == RStrip(LStrip(s))

\* index of the first occurrence of character c in s, 0 when there is none
FirstIndex(s, c) ==
    IF \E i \in 1..Len(s) : s[i] = c
    THEN CHOOSE i \in 1..Len(s) : s[i] = c /\ \A j \in 1..(i - 1) : s[j] # c
    ELSE 0

\* str.split(sep) for a one-character separator: always at least one piece
RECURSIVE Split(_, _)
Split(s, sep) ==
    LET i == FirstIndex(s, sep)
    IN  IF i = 0 THEN << s >>
        ELSE << SubSeq(s, 1, i - 1) >> \o Split(SubSeq(s, i + 1, Len(s)), sep)

\* `sub in s`
Contains(s, sub) ==
    \E i \in 0..(Len(s) - Len(sub)) :
        \A j \in 1..Len(sub) : s[i + j] = sub[j]

(***************************************************************************)
(* The source-hosting platform as the collector sees it.                   *)
(***************************************************************************)
R1 == <<"r", "1">>
R2 == <<"r", "2">>
RepoNames == {R1, R2}

\* values of GITHUB_REPOS: unset, " ", "r1", "r1, r2", "r2,,r1"
RepoEnvValues ==
    { << >>, <<" ">>, R1, R1 \o <<",", " ">> \o R2, R2 \o <<",", ",">> \o R1 }

\* datetime.now(), in hours
NowHour == 1000

\* timedelta(days=1), in hours
OneDayHours == 24

\* a repository answers, is not found, or fails while its listing is read
RepoStatuses == {"ok", "repo_error", "page_error"}

RepoStatus(plat, name) ==
    IF name \in DOMAIN plat.status THEN plat.status[name] ELSE "repo_error"

RepoIndex(name) == IF name = R1 THEN 1 ELSE 2

SeqsUpTo(S, n) == UNION { [1..k -> S] : k \in 0..n }

\* an open pull request as the platform reports it
PullKinds == {"plain", "reviewed", "review_fails", "no_user"}

OpenPull(name, i, kind) ==
    [number |-> 10 * RepoIndex(name) + i,
     title |-> "title" \o ToString(10 * RepoIndex(name) + i),
     html_url |-> "url" \o ToString(10 * RepoIndex(name) + i),
     user |-> IF kind = "no_user" THEN None ELSE Some("dev" \o ToString(i)),
     created_at |-> NowHour - 30 * i,
     review_fails |-> kind = "review_fails",
     review_requests |->
        CASE kind = "reviewed" -> << <<"alice", "bob">>, <<"team">> >>
          [] kind = "review_fails" -> << <<"carol">>, << >> >>
          [] OTHER -> << << >>, << >> >>]

OpenPulls(name, kinds, n) ==
    { [i \in 1..Len(ks) |-> OpenPull(name, i, ks[i])] : ks \in SeqsUpTo(kinds, n) }

\* a closed pull request as the platform reports it: merged or not, and
\* how many hours before now (None: no merge timestamp)
ClosedKinds == {"merged_2h", "merged_24h", "merged_26h", "unmerged", "merged_no_time"}

ClosedPull(name, i, kind) ==
    [number |-> 10 * RepoIndex(name) + i,
     title |-> "title" \o ToString(10 * RepoIndex(name) + i),
     html_url |-> "url" \o ToString(10 * RepoIndex(name) + i),
     user |-> Some("dev" \o ToString(i)),
     merged |-> kind # "unmerged",
     merged_at |->
        CASE kind = "merged_2h" -> Some(NowHour - 2)
          [] kind = "merged_24h" -> Some(NowHour - 24)
          [] kind = "merged_26h" -> Some(NowHour - 26)
          [] OTHER -> None,
     merged_by |-> IF kind = "merged_2h" THEN Some("lead") ELSE None]

ClosedPulls(name, kinds, n) ==
    { [i \in 1..Len(ks) |-> ClosedPull(name, i, ks[i])] : ks \in SeqsUpTo(kinds, n) }

\* commit messages
MsgFixLoginBug ==
    <<"F", "i", "x", " ", "l", "o", "g", "i", "n", " ", "b", "u", "g">>
MsgAddNewFeature ==
    <<"A", "d", "d", " ", "n", "e", "w", " ", "f", "e", "a", "t", "u", "r", "e">>
MsgSecondLine ==
    <<"T", "i", "d", "y", "\n", "h", "o", "t", "f", "i", "x">>
MsgUrgentUpper ==
    <<"U", "R", "G", "E", "N", "T", " ", "d", "e", "p", "l", "o", "y">>

\* a commit as the platform reports it
CommitKinds ==
    {"fix", "feature", "second_line", "upper", "fix_unlinked", "fix_broken",
     "no_message"}

Commit(name, i, kind) ==
    [sha |-> <<ToString(RepoIndex(name)), ToString(i), "a", "b", "c", "d", "e",
               "f", "0", "9">>,
     html_url |-> "commit" \o ToString(10 * RepoIndex(name) + i),
     message |->
        CASE kind = "feature" -> Some(MsgAddNewFeature)
          [] kind = "second_line" -> Some(MsgSecondLine)
          [] kind = "upper" -> Some(MsgUrgentUpper)
          [] kind = "no_message" -> None
          [] OTHER -> Some(MsgFixLoginBug),
     author |->
        IF kind \in {"fix_unlinked", "fix_broken"} THEN None
        ELSE Some("dev" \o ToString(i)),
     commit_author |->
        IF kind = "fix_broken" THEN None
        ELSE Some([name |-> "Dev " \o ToString(i), date |-> NowHour - i])]

Commits(name, kinds, n) ==
    { [i \in 1..Len(ks) |-> Commit(name, i, ks[i])] : ks \in SeqsUpTo(kinds, n) }

\* the changed files of a pull request; a patch is absent, empty, or a text
\* of the given length
PatchOf(n) == [i \in 1..n |-> "+"]

PatchLengths == {2999, 3000, 3001}

Patches == {None, Some(<< >>)} \cup { Some(PatchOf(n)) : n \in PatchLengths }

ChangedFile(i, patch) ==
    [filename |-> "file" \o ToString(i),
     status |-> IF i = 1 THEN "modified" ELSE "added",
     additions |-> 3 * i,
     deletions |-> i,
     patch |-> patch]

ChangedFiles(n) ==
    { [i \in 1..Len(ps) |-> ChangedFile(i, ps[i])] : ps \in SeqsUpTo(Patches, n) }

\* what get_pull answers for one pull request
PullDetail(number, body, user, files, files_fail) ==
    [number |-> number,
     title |-> "title" \o ToString(number),
     html_url |-> "url" \o ToString(number),
     body |-> body,
     user |-> user,
     created_at |-> NowHour - 30,
     files |-> files,
     files_fail |-> files_fail]

\* what the generative-text service answers to an invocation
ModelReplies == {"ok", "raise", "empty_content", "no_text"}

NoPulls == (R1 :> << >>) @@ (R2 :> << >>)
AllOk == (R1 :> "ok") @@ (R2 :> "ok")

Platform(status, open, closed, commits, detail, reply) ==
    [status |-> status, open |-> open, closed |-> closed, commits |-> commits,
     detail |-> detail, model |-> reply]

NoDetail == (R1 :> EmptyDict) @@ (R2 :> EmptyDict)

(***************************************************************************)
(* GithubCollector.__init__                                                *)
(***************************************************************************)
Tokens == {None, Some(""), Some("ghp_token")}

\* self.client after construction: set when the token is truthy and
\* Github(token) did not raise
GithubInit(token, construct_ok) ==
    IF token.isNone THEN FALSE
    ELSE IF token.v = "" THEN FALSE
    ELSE construct_ok

\* the guard without its test of the client
Disabled_IgnoresClient(cl, rs) == rs = << >> \/ rs = << << >> >>

\* `not self.client or not self.repos or self.repos == [""]`
Disabled(cl, rs) == ~cl \/ rs = << >> \/ rs = << << >> >>

(***************************************************************************)
(* GithubCollector.get_open_prs                                            *)
(***************************************************************************)
\* strftime("%Y-%m-%d"): the calendar day of an instant
DayOf(hour) == hour \div 24

\* (now - t).days
DaysSince(hour) == (NowHour - hour) \div 24

\* the requested reviewers, read although fetching them raised
Reviewers_IgnoresFailure(pr) == pr.review_requests[1]

\* the requested reviewers, [] when fetching them raised
Reviewers(pr) ==
    IF pr.review_fails THEN << >> ELSE pr.review_requests[1]

PrData(pr, repo_name) ==
    [number |-> pr.number,
     title |-> pr.title,
     url |-> pr.html_url,
     author |-> IF pr.user.isNone THEN "Unknown" ELSE pr.user.v,
     created_at |-> DayOf(pr.created_at),
     days_open |-> DaysSince(pr.created_at),
     repository |-> repo_name,
     reviewers |-> Reviewers(pr)]

RECURSIVE ScanOpenPrs_KeepsPartial(_, _, _, _, _)
\* the scan that returns what it has when a repository fails
ScanOpenPrs_KeepsPartial(rs, plat, i, acc, cs) ==
    IF i > Len(rs) THEN [ret |-> Return(acc), calls |-> cs]
    ELSE
      LET repo_name == Strip(rs[i]) IN
      IF repo_name = << >> THEN ScanOpenPrs_KeepsPartial(rs, plat, i + 1, acc, cs)
      ELSE IF RepoStatus(plat, repo_name) = "repo_error"
      THEN [ret |-> Return(acc), calls |-> cs \o <<"get_repo">>]
      ELSE
        LET pulls == plat.open[repo_name]
            recs == [k \in 1..Len(pulls) |-> PrData(pulls[k], repo_name)]
            cs2 == cs \o <<"get_repo", "get_pulls">>
                      \o [k \in 1..Len(pulls) |-> "get_review_requests"]
        IN  IF RepoStatus(plat, repo_name) = "page_error"
            THEN [ret |-> Return(acc), calls |-> cs2]
            ELSE ScanOpenPrs_KeepsPartial(rs, plat, i + 1, acc \o recs, cs2)

RECURSIVE ScanOpenPrs(_, _, _, _, _)
ScanOpenPrs(rs, plat, i, acc, cs) ==
    IF i > Len(rs) THEN [ret |-> Return(acc), calls |-> cs]
    ELSE
      LET repo_name == Strip(rs[i]) IN
      IF repo_name = << >> THEN ScanOpenPrs(rs, plat, i + 1, acc, cs)
      ELSE IF RepoStatus(plat, repo_name) = "repo_error"
      THEN [ret |-> Return(EmptyList), calls |-> cs \o <<"get_repo">>]
      ELSE
        LET pulls == plat.open[repo_name]
            recs == [k \in 1..Len(pulls) |-> PrData(pulls[k], repo_name)]
            cs2 == cs \o <<"get_repo", "get_pulls">>
                      \o [k \in 1..Len(pulls) |-> "get_review_requests"]
        IN  IF RepoStatus(plat, repo_name) = "page_error"
            THEN [ret |-> Return(EmptyList), calls |-> cs2]
            ELSE ScanOpenPrs(rs, plat, i + 1, acc \o recs, cs2)

get_open_prs(cl, rs, plat) ==
    IF Disabled(cl, rs) THEN [ret |-> Return(EmptyList), calls |-> << >>]
    ELSE ScanOpenPrs(rs, plat, 1, << >>, << >>)

(***************************************************************************)
(* GithubCollector.get_recent_merges                                       *)
(***************************************************************************)
\* The module imports the class: `from datetime import datetime, timedelta`.
\* The class datetime.datetime has no attribute `timezone`, so evaluating
\* `datetime.timezone.utc` raises AttributeError.
DatetimeClassHasTimezone == FALSE

\* `pr.merged and pr.merged_at and pr.merged_at > yesterday`
MergedSince(pr, yesterday) ==
    /\ pr.merged
    /\ ~pr.merged_at.isNone
    /\ pr.merged_at.v > yesterday

MergeData(pr, repo_name) ==
    [number |-> pr.number,
     title |-> pr.title,
     url |-> pr.html_url,
     author |-> IF pr.user.isNone THEN "Unknown" ELSE pr.user.v,
     merged_at |-> pr.merged_at.v,
     repository |-> repo_name,
     merged_by |-> IF pr.merged_by.isNone THEN "Unknown" ELSE pr.merged_by.v]

\* the records of the qualifying pull requests of one listing, in order
RECURSIVE MergesOf(_, _, _)
MergesOf(pulls, repo_name, yesterday) ==
    IF pulls = << >> THEN << >>
    ELSE (IF MergedSince(Head(pulls), yesterday)
          THEN << MergeData(Head(pulls), repo_name) >> ELSE << >>)
         \o MergesOf(Tail(pulls), repo_name, yesterday)

RECURSIVE ScanMerges(_, _, _, _, _, _)
ScanMerges(rs, plat, yesterday, i, acc, cs) ==
    IF i > Len(rs) THEN [ret |-> Return(acc), calls |-> cs]
    ELSE
      LET repo_name == Strip(rs[i]) IN
      IF repo_name = << >> THEN ScanMerges(rs, plat, yesterday, i + 1, acc, cs)
      ELSE IF RepoStatus(plat, repo_name) = "repo_error"
      THEN [ret |-> Return(EmptyList), calls |-> cs \o <<"get_repo">>]
      ELSE
        LET cs2 == cs \o <<"get_repo", "get_pulls">> IN
        IF RepoStatus(plat, repo_name) = "page_error"
        THEN [ret |-> Return(EmptyList), calls |-> cs2]
        ELSE ScanMerges(rs, plat, yesterday, i + 1,
                        acc \o MergesOf(plat.closed[repo_name], repo_name, yesterday),
                        cs2)

get_recent_merges(cl, rs, plat) ==
    IF Disabled(cl, rs) THEN [ret |-> Return(EmptyList), calls |-> << >>]
    ELSE IF ~DatetimeClassHasTimezone
    THEN [ret |-> Raise("AttributeError"), calls |-> << >>]
    ELSE ScanMerges(rs, plat, NowHour - OneDayHours, 1, << >>, << >>)

(***************************************************************************)
(* GithubCollector.get_urgent_commits                                      *)
(***************************************************************************)
Kw(w) == CASE w = "fix" -> <<"f", "i", "x">>
           [] w = "hotfix" -> <<"h", "o", "t", "f", "i", "x">>
           [] w = "urgent" -> <<"u", "r", "g", "e", "n", "t">>
           [] w = "emergency" -> <<"e", "m", "e", "r", "g", "e", "n", "c", "y">>
           [] w = "critical" -> <<"c", "r", "i", "t", "i", "c", "a", "l">>
           [] w = "bug" -> <<"b", "u", "g">>

urgent_keywords ==
    { Kw(w) : w \in {"fix", "hotfix", "urgent", "emergency", "critical", "bug"} }

\* a keyword test that only looks at the start of the message
IsUrgent_AtStart(message) ==
    \E keyword \in urgent_keywords :
        /\ Len(message) >= Len(keyword)
        /\ SubSeq(message, 1, Len(keyword)) = keyword

\* `any(keyword in message for keyword in urgent_keywords)`
IsUrgent(message) == \E keyword \in urgent_keywords : Contains(message, keyword)

\* building commit_data raises when the commit has neither a linked account
\* nor author metadata, or no author metadata to take the date from
CommitDataRaises(commit) == commit.commit_author.isNone

\* a record that carries the whole message instead of its first line
CommitData_WholeMessage(commit, repo_name) ==
    [sha |-> Take(commit.sha, 7),
     message |-> commit.message.v,
     url |-> commit.html_url,
     author |-> IF commit.author.isNone THEN commit.commit_author.v.name
                ELSE commit.author.v,
     date |-> commit.commit_author.v.date,
     repository |-> repo_name]

CommitData(commit, repo_name) ==
    [sha |-> Take(commit.sha, 7),
     message |-> Split(commit.message.v, "\n")[1],
     url |-> commit.html_url,
     author |-> IF commit.author.isNone THEN commit.commit_author.v.name
                ELSE commit.author.v,
     date |-> commit.commit_author.v.date,
     repository |-> repo_name]

\* the scan of one listing: the records appended, or raised when a commit
\* has no message (`commit.commit.message.lower()` on None)
RECURSIVE UrgentOf(_, _)
UrgentOf(commits, repo_name) ==
    IF commits = << >> THEN [raised |-> FALSE, recs |-> << >>]
    ELSE
      LET commit == Head(commits) IN
      IF commit.message.isNone THEN [raised |-> TRUE, recs |-> << >>]
      ELSE
        LET rest == UrgentOf(Tail(commits), repo_name)
            mine == IF IsUrgent(Lower(commit.message.v)) /\ ~CommitDataRaises(commit)
                    THEN << CommitData(commit, repo_name) >> ELSE << >>
        IN  [raised |-> rest.raised, recs |-> mine \o rest.recs]

RECURSIVE ScanCommits(_, _, _, _, _)
ScanCommits(rs, plat, i, acc, cs) ==
    IF i > Len(rs) THEN [ret |-> Return(acc), calls |-> cs]
    ELSE
      LET repo_name == Strip(rs[i]) IN
      IF repo_name = << >> THEN ScanCommits(rs, plat, i + 1, acc, cs)
      ELSE IF RepoStatus(plat, repo_name) = "repo_error"
      THEN [ret |-> Return(EmptyList), calls |-> cs \o <<"get_repo">>]
      ELSE
        LET cs2 == cs \o <<"get_repo", "get_commits">>
            scan == UrgentOf(plat.commits[repo_name], repo_name)
        IN  IF scan.raised \/ RepoStatus(plat, repo_name) = "page_error"
            THEN [ret |-> Return(EmptyList), calls |-> cs2]
            ELSE ScanCommits(rs, plat, i + 1, acc \o scan.recs, cs2)

get_urgent_commits(cl, rs, plat) ==
    IF Disabled(cl, rs) THEN [ret |-> Return(EmptyList), calls |-> << >>]
    ELSE ScanCommits(rs, plat, 1, << >>, << >>)

(***************************************************************************)
(* Prompts.  A prompt is the sequence of the segments that the code        *)
(* appends one after the other; a segment is a sequence of strings (fixed  *)
(* fragments, formatted fields, and the characters of an embedded patch).  *)
(***************************************************************************)
\* dict.get(key, default): the default only replaces a missing key
DictGet(d, key, default) == IF key \in DOMAIN d THEN d[key] ELSE default

\* an optional string inside an f-string: None is formatted as "None"
Fmt(x) == IF x.isNone THEN "None" ELSE x.v

PatchLimit == 3000

DiffTooLarge == <<"\n[Diff too large to include]\n">>
\* the fence line of three backticks, written with apostrophes
CodeFence == "\n'''\n"

PromptHeader(diff_data) ==
    << "You are a senior software engineer.\nSummarize this pull request in plain English.\nThen suggest 3-5 relevant unit test cases based on the logic in the diff.\n\nPull Request: ",
       DictGet(diff_data, "title", "None"),
       "\nAuthor: ",
       DictGet(diff_data, "user", "None"),
       "\nDescription: ",
       Fmt(DictGet(diff_data, "body", Some("No description provided."))),
       "\n\nChanged files:\n" >>

\* `if patch and len(patch) < 3000`
PatchIncluded(patch) ==
    /\ ~patch.isNone
    /\ patch.v # << >>
    /\ Len(patch.v) < PatchLimit

\* the patch segment without the size limit
PatchSegment_NoLimit(patch) ==
    IF ~patch.isNone /\ patch.v # << >>
    THEN <<CodeFence>> \o patch.v \o <<CodeFence>>
    ELSE DiffTooLarge

PatchSegment(patch) ==
    IF PatchIncluded(patch) THEN <<CodeFence>> \o patch.v \o <<CodeFence>>
    ELSE DiffTooLarge

FileSegments(file) ==
    << <<"\nFile: ", file.filename>>,
       <<"\nStatus: ", file.status>>,
       <<"\nChanges: +", ToString(file.additions), " -",
         ToString(file.deletions), " lines">>,
       PatchSegment(file.patch) >>

RECURSIVE FilesSegments(_)
FilesSegments(files) ==
    IF files = << >> THEN << >>
    ELSE FileSegments(Head(files)) \o FilesSegments(Tail(files))

\* BedrockSummarizer._build_pr_analysis_prompt
build_pr_analysis_prompt(diff_data) ==
    << PromptHeader(diff_data) >> \o FilesSegments(DictGet(diff_data, "files", << >>))

\* the collector's test with the limit itself allowed
CollectorPatchIncluded_AtLimit(patch) ==
    /\ ~patch.isNone
    /\ patch.v # << >>
    /\ Len(patch.v) <= PatchLimit

\* the copy of the same construction inside GithubCollector.analyze_pr
CollectorPatchIncluded(patch) ==
    /\ ~patch.isNone
    /\ patch.v # << >>
    /\ Len(patch.v) < PatchLimit

CollectorFileSegments(file) ==
    << <<"\nFile: ", file.filename>>,
       <<"\nStatus: ", file.status>>,
       <<"\nChanges: +", ToString(file.additions), " -",
         ToString(file.deletions), " lines">>,
       IF CollectorPatchIncluded(file.patch)
       THEN <<CodeFence>> \o file.patch.v \o <<CodeFence>>
       ELSE DiffTooLarge >>

RECURSIVE CollectorFilesSegments(_)
CollectorFilesSegments(files) ==
    IF files = << >> THEN << >>
    ELSE CollectorFileSegments(Head(files)) \o CollectorFilesSegments(Tail(files))

CollectorPrompt(diff_data) ==
    << << "You are a senior software engineer.\nSummarize this pull request in plain English.\nThen suggest 3-5 relevant unit test cases based on the logic in the diff.\n\nPull Request: ",
          DictGet(diff_data, "title", "None"),
          "\nAuthor: ",
          DictGet(diff_data, "user", "None"),
          "\nDescription: ",
          Fmt(DictGet(diff_data, "body", Some("No description provided."))),
          "\n\nChanged files:\n" >> >>
    \o CollectorFilesSegments(DictGet(diff_data, "files", << >>))

(***************************************************************************)
(* BedrockSummarizer.generate_custom_text and analyze_pr_diff              *)
(***************************************************************************)
ModelText == <<"This change fixes the login flow.">>

\* one invocation of the model and the parsing of its response
InvokeAndParse(reply, apology) ==
    CASE reply = "ok" -> Return(ModelText)
      [] reply = "no_text" -> Return(<<"">>)
      [] reply = "empty_content" -> Return(<<apology, "list index out of range">>)
      [] OTHER -> Return(<<apology, "service unavailable">>)

generate_custom_text(bd, prompt, reply) ==
    IF ~bd.client \/ ~bd.model_id
    THEN [ret |-> Return(<<"Unable to generate text due to configuration issues.">>),
          calls |-> << >>]
    ELSE [ret |-> InvokeAndParse(reply, "Unable to generate text. Error: "),
          calls |-> <<"invoke_model">>]

analyze_pr_diff(bd, diff_data, reply) ==
    LET prompt == build_pr_analysis_prompt(diff_data)
        r == generate_custom_text(bd, prompt, reply)
    IN  [ret |-> r.ret, calls |-> r.calls, prompt |-> prompt]

(***************************************************************************)
(* GithubCollector.analyze_pr                                              *)
(***************************************************************************)
FileData(file) ==
    [filename |-> file.filename,
     status |-> file.status,
     additions |-> file.additions,
     deletions |-> file.deletions,
     patch |-> file.patch]

DiffData(pr) ==
    [title |-> pr.title,
     body |-> pr.body,
     user |-> IF pr.user.isNone THEN "Unknown" ELSE pr.user.v,
     created_at |-> DayOf(pr.created_at),
     files |-> [k \in 1..Len(pr.files) |-> FileData(pr.files[k])]]

Unavailable(repo_name, pr_number, title) ==
    <<"PR Analysis for ">> \o repo_name \o
    <<"#", ToString(pr_number), ": ", title, "\n",
      "AI analysis is currently unavailable.\n",
      "Enable AI analysis by setting up AWS Bedrock integration.\n">>

\* the outcome of analyze_pr; `prompt` is the prompt it logged (<< >> when
\* it did not get that far)
analyze_pr(cl, ai, bd, plat, repo_name, pr_number) ==
    IF ~cl THEN [ret |-> Return(EmptyDict), calls |-> << >>, prompt |-> << >>]
    ELSE IF RepoStatus(plat, repo_name) = "repo_error"
    THEN [ret |-> Return(EmptyDict), calls |-> <<"get_repo">>, prompt |-> << >>]
    ELSE IF pr_number \notin DOMAIN plat.detail[repo_name]
    THEN [ret |-> Return(EmptyDict), calls |-> <<"get_repo", "get_pull">>,
          prompt |-> << >>]
    ELSE
      LET pr == plat.detail[repo_name][pr_number]
          cs == <<"get_repo", "get_pull", "get_files">>
      IN
      IF pr.files_fail
      THEN [ret |-> Return(EmptyDict), calls |-> cs, prompt |-> << >>]
      ELSE
        LET diff_data == DiffData(pr)
            prompt == CollectorPrompt(diff_data)
            ai_r == analyze_pr_diff(bd, diff_data, plat.model)
            analysis_text ==
                IF ai THEN ai_r.ret.value
                ELSE Unavailable(repo_name, pr_number, pr.title)
        IN  [ret |-> Return([pr_number |-> pr_number,
                             repo |-> repo_name,
                             title |-> DictGet(diff_data, "title", "None"),
                             author |-> DictGet(diff_data, "user", "None"),
                             analysis |-> analysis_text,
                             url |-> pr.html_url]),
             calls |-> cs \o (IF ai THEN ai_r.calls ELSE << >>),
             prompt |-> prompt]

(***************************************************************************)
(* GithubCollector.get_pr_analyses                                         *)
(***************************************************************************)
AnalysisBatch == 3

\* one method invocation, with its arguments
Invocation(method, a) == [method |-> method, args |-> a]

RECURSIVE AnalyzeEach(_, _, _, _, _, _, _, _)
AnalyzeEach(cl, ai, bd, plat, prs, acc, cs, inv) ==
    IF prs = << >> THEN [ret |-> Return(acc), calls |-> cs, invoked |-> inv]
    ELSE
      LET pr == Head(prs)
          r == analyze_pr(cl, ai, bd, plat, pr.repository, pr.number)
      IN  IF pr.repository # << >> /\ pr.number # 0
          THEN AnalyzeEach(cl, ai, bd, plat, Tail(prs),
                           IF r.ret.value # EmptyDict THEN Append(acc, r.ret.value)
                           ELSE acc,
                           cs \o r.calls,
                           Append(inv, Invocation("analyze_pr",
                                                  [repo_name |-> pr.repository,
                                                   pr_number |-> pr.number])))
          ELSE AnalyzeEach(cl, ai, bd, plat, Tail(prs), acc, cs, inv)

\* the analysis of every open pull request, not only of the first three
get_pr_analyses_NoLimit(cl, rs, ai, bd, plat) ==
    IF Disabled(cl, rs)
    THEN [ret |-> Return(EmptyList), calls |-> << >>, invoked |-> << >>]
    ELSE
      LET open_prs == get_open_prs(cl, rs, plat)
      IN  AnalyzeEach(cl, ai, bd, plat, open_prs.ret.value,
                      << >>, open_prs.calls,
                      << Invocation("get_open_prs", << >>) >>)

get_pr_analyses(cl, rs, ai, bd, plat) ==
    IF Disabled(cl, rs)
    THEN [ret |-> Return(EmptyList), calls |-> << >>, invoked |-> << >>]
    ELSE
      LET open_prs == get_open_prs(cl, rs, plat)
      IN  AnalyzeEach(cl, ai, bd, plat, Take(open_prs.ret.value, AnalysisBatch),
                      << >>, open_prs.calls,
                      << Invocation("get_open_prs", << >>) >>)

(***************************************************************************)
(* GithubCollector.collect                                                 *)
(***************************************************************************)
FlagTrue == <<"t", "r", "u", "e">>
FlagValues ==
    {None, Some(FlagTrue), Some(<<"T", "R", "U", "E">>),
     Some(<<"f", "a", "l", "s", "e">>), Some(<<"t", "r", "u", "e", " ">>)}

\* the flag compared without lower-casing it
AnalysisEnabled_CaseSensitive(flag) ==
    (IF flag.isNone THEN <<"f", "a", "l", "s", "e">> ELSE flag.v) = FlagTrue

\* `os.getenv("ENABLE_PR_ANALYSIS", "false").lower() == "true"`
AnalysisEnabled(flag) ==
    Lower(IF flag.isNone THEN <<"f", "a", "l", "s", "e">> ELSE flag.v) = FlagTrue

collect(cl, rs, ai, bd, plat, flag) ==
    LET o == get_open_prs(cl, rs, plat)
        m == get_recent_merges(cl, rs, plat)
        u == get_urgent_commits(cl, rs, plat)
        a == get_pr_analyses(cl, rs, ai, bd, plat)
        base == [open_prs |-> o.ret.value,
                 recent_merges |-> m.ret.value,
                 urgent_commits |-> u.ret.value]
        listed == << Invocation("get_open_prs", << >>),
                     Invocation("get_recent_merges", << >>),
                     Invocation("get_urgent_commits", << >>) >>
    IN  IF m.ret.kind = "raise"
        THEN [ret |-> m.ret, calls |-> o.calls \o m.calls,
              invoked |-> SubSeq(listed, 1, 2)]
        ELSE IF AnalysisEnabled(flag)
        THEN [ret |-> Return(base @@ [pr_analyses |-> a.ret.value]),
              calls |-> o.calls \o m.calls \o u.calls \o a.calls,
              invoked |-> listed \o << Invocation("get_pr_analyses", << >>) >>
                          \o a.invoked]
        ELSE [ret |-> Return(base),
              calls |-> o.calls \o m.calls \o u.calls,
              invoked |-> listed]

(***************************************************************************)
(* The collector's operations as actions.                                  *)
(***************************************************************************)
world == <<client, repos, ai_summarizer, enable_flag, bedrock, team_name,
           platform, data>>

GetOpenPrs ==
    LET r == get_open_prs(client, repos, platform) IN
    /\ op' = "get_open_prs"
    /\ args' = EmptyDict
    /\ ret' = r.ret
    /\ calls' = r.calls
    /\ last_prompt' = << >>
    /\ invoked' = << >>
    /\ UNCHANGED world

GetRecentMerges ==
    LET r == get_recent_merges(client, repos, platform) IN
    /\ op' = "get_recent_merges"
    /\ args' = EmptyDict
    /\ ret' = r.ret
    /\ calls' = r.calls
    /\ last_prompt' = << >>
    /\ invoked' = << >>
    /\ UNCHANGED world

GetUrgentCommits ==
    LET r == get_urgent_commits(client, repos, platform) IN
    /\ op' = "get_urgent_commits"
    /\ args' = EmptyDict
    /\ ret' = r.ret
    /\ calls' = r.calls
    /\ last_prompt' = << >>
    /\ invoked' = << >>
    /\ UNCHANGED world

PrNumbers == {11, 12}

AnalyzePr ==
    \E repo_name \in RepoNames, pr_number \in PrNumbers :
        LET r == analyze_pr(client, ai_summarizer, bedrock, platform,
                            repo_name, pr_number) IN
        /\ op' = "analyze_pr"
        /\ args' = [repo_name |-> repo_name, pr_number |-> pr_number]
        /\ ret' = r.ret
        /\ calls' = r.calls
        /\ last_prompt' = r.prompt
        /\ invoked' = << >>
        /\ UNCHANGED world

GetPrAnalyses ==
    LET r == get_pr_analyses(client, repos, ai_summarizer, bedrock, platform) IN
    /\ op' = "get_pr_analyses"
    /\ args' = EmptyDict
    /\ ret' = r.ret
    /\ calls' = r.calls
    /\ last_prompt' = << >>
    /\ invoked' = r.invoked
    /\ UNCHANGED world

Collect ==
    LET r == collect(client, repos, ai_summarizer, bedrock, platform, enable_flag) IN
    /\ op' = "collect"
    /\ args' = EmptyDict
    /\ ret' = r.ret
    /\ calls' = r.calls
    /\ last_prompt' = << >>
    /\ invoked' = r.invoked
    /\ UNCHANGED world

(***************************************************************************)
(* The collector's specification: a configuration and the answers of the   *)
(* platform, then any public operation at any time.                        *)
(***************************************************************************)
Statuses == [RepoNames -> RepoStatuses]

PlainDetail == PullDetail(11, Some("Fixes the login flow"), Some("dev1"),
                          << ChangedFile(1, Some(<<"+", "x">>)) >>, FALSE)

OneDetail(d) == (R1 :> (11 :> d)) @@ (R2 :> EmptyDict)

\* the second repository lists at most one item
OpenPlatforms ==
    { Platform(st, (R1 :> o1) @@ (R2 :> o2), NoPulls, NoPulls, NoDetail, "ok") :
        st \in Statuses,
        o1 \in OpenPulls(R1, PullKinds, MaxPulls),
        o2 \in OpenPulls(R2, {"plain", "review_fails"}, 1) }

ClosedPlatforms ==
    { Platform(st, NoPulls, (R1 :> c1) @@ (R2 :> c2), NoPulls, NoDetail, "ok") :
        st \in Statuses,
        c1 \in ClosedPulls(R1, ClosedKinds, MaxPulls),
        c2 \in ClosedPulls(R2, {"merged_2h"}, 1) }

CommitPlatforms ==
    { Platform(st, NoPulls, NoPulls, (R1 :> c1) @@ (R2 :> c2), NoDetail, "ok") :
        st \in Statuses,
        c1 \in Commits(R1, CommitKinds, MaxCommits),
        c2 \in Commits(R2, {"fix"}, 1) }

\* a little of everything, for the runs that use every listing at once
MixedPlatforms ==
    { Platform(AllOk, (R1 :> o1) @@ (R2 :> << >>), (R1 :> c1) @@ (R2 :> << >>),
               (R1 :> u1) @@ (R2 :> << >>), OneDetail(PlainDetail), "ok") :
        o1 \in OpenPulls(R1, {"plain"}, 1),
        c1 \in ClosedPulls(R1, {"merged_2h"}, 1),
        u1 \in Commits(R1, {"fix"}, 1) }

ConfiguredEnvs == { R1, R1 \o <<",", " ">> \o R2, R2 \o <<",", ",">> \o R1 }

Unwired == [client |-> FALSE, model_id |-> FALSE]

CollectorInit ==
    /\ \/ /\ client = GithubInit(Some("ghp_token"), TRUE)
          /\ \E env \in ConfiguredEnvs : repos = Split(env, ",")
          /\ enable_flag = None
          /\ platform \in OpenPlatforms \cup ClosedPlatforms \cup CommitPlatforms
       \/ /\ \E token \in Tokens, construct_ok \in BOOLEAN :
                 client = GithubInit(token, construct_ok)
          /\ \E env \in RepoEnvValues : repos = Split(env, ",")
          /\ enable_flag \in FlagValues
          /\ platform \in MixedPlatforms
    /\ ai_summarizer = FALSE
    /\ bedrock = Unwired
    /\ team_name = "Platform"
    /\ data = EmptyDict
    /\ op = "init"
    /\ args = EmptyDict
    /\ ret = Return(EmptyDict)
    /\ calls = << >>
    /\ last_prompt = << >>
    /\ invoked = << >>

CollectorNext ==
    \/ GetOpenPrs
    \/ GetRecentMerges
    \/ GetUrgentCommits
    \/ AnalyzePr
    \/ GetPrAnalyses
    \/ Collect

CollectorSpec == CollectorInit /\ [][CollectorNext]_vars

(***************************************************************************)
(* Properties of the collector.                                            *)
(***************************************************************************)
ListingOps == {"get_open_prs", "get_recent_merges", "get_urgent_commits",
               "get_pr_analyses"}

\* the repositories a scan visits: the configured entries, stripped, the
\* empty ones dropped, in configured order
RECURSIVE Visited(_)
Visited(rs) ==
    IF rs = << >> THEN << >>
    ELSE (IF Strip(Head(rs)) = << >> THEN << >> ELSE << Strip(Head(rs)) >>)
         \o Visited(Tail(rs))

\* no repository of the scan fails to answer
AllAnswer ==
    \A i \in 1..Len(Visited(repos)) : RepoStatus(platform, Visited(repos)[i]) = "ok"

\* C1: no exception escapes a public operation of the collector: whatever
\* the configuration and whatever the platform answers, the operation
\* returns a value.
C1_NoExceptionEscapes == ret.kind = "return"

\* C2: without a client, the four listing operations return the empty
\* list, analyze_pr returns the empty dict, collect returns a dict whose
\* lists are all empty, and none of them calls the platform.  (An empty
\* list and an empty dict are the same value here.)
C2_DisabledWithoutToken ==
    (~client /\ op # "init") =>
        /\ ret.kind = "return"
        /\ calls = << >>
        /\ op \in ListingOps => ret.value = EmptyList
        /\ op = "analyze_pr" => ret.value = EmptyDict
        /\ op = "collect" =>
              /\ {"open_prs", "recent_merges", "urgent_commits"} \subseteq DOMAIN ret.value
              /\ \A k \in DOMAIN ret.value : ret.value[k] = EmptyList

\* collect ran without a client, with the analyses enabled, against a
\* platform that has pull requests and commits to report
C2_Witness ==
    /\ ~client
    /\ op = "collect"
    /\ ret.kind = "return"
    /\ "pr_analyses" \in DOMAIN ret.value
    /\ platform.open[R1] # << >>
    /\ platform.commits[R1] # << >>

\* a Merge Record of the result stands for closed pull request pr of name
MergeRecordFor(name, pr) ==
    \E k \in 1..Len(ret.value) :
        ret.value[k].number = pr.number /\ ret.value[k].repository = name

\* C3: with a client and repositories that answer, get_recent_merges
\* returns a record for a closed pull request exactly when it is merged,
\* has a merge timestamp, and the timestamp is later than now - 24 hours.
C3_RecentMergesWithin24h ==
    (op = "get_recent_merges" /\ ~Disabled(client, repos) /\ AllAnswer) =>
        \A i \in 1..Len(Visited(repos)) :
            LET name == Visited(repos)[i] IN
            \A j \in 1..Len(platform.closed[name]) :
                LET pr == platform.closed[name][j]
                    recent == /\ pr.merged
                              /\ ~pr.merged_at.isNone
                              /\ pr.merged_at.v > NowHour - 24
                    included == ret.kind = "return" /\ MergeRecordFor(name, pr)
                IN  recent <=> included

\* the lower-cased message contains one of the six keywords
KeywordFix == <<"f", "i", "x">>
KeywordBug == <<"b", "u", "g">>
KeywordUrgent == <<"u", "r", "g", "e", "n", "t">>
KeywordEmergency == <<"e", "m", "e", "r", "g", "e", "n", "c", "y">>
KeywordCritical == <<"c", "r", "i", "t", "i", "c", "a", "l">>
KeywordHotfix == <<"h", "o", "t">> \o KeywordFix

MessageHasKeyword(commit) ==
    /\ ~commit.message.isNone
    /\ \E w \in {KeywordFix, KeywordHotfix, KeywordUrgent, KeywordEmergency,
                 KeywordCritical, KeywordBug} :
          \E i \in 0..(Len(commit.message.v) - Len(w)) :
              Lower(SubSeq(commit.message.v, i + 1, i + Len(w))) = w

\* an Urgent Commit Record of the result stands for commit c of name
CommitRecordFor(name, c) ==
    \E k \in 1..Len(ret.value) :
        ret.value[k].sha = SubSeq(c.sha, 1, 7) /\ ret.value[k].repository = name

CommitScanCompletes ==
    /\ AllAnswer
    /\ \A i \in 1..Len(Visited(repos)) :
          \A j \in 1..Len(platform.commits[Visited(repos)[i]]) :
              ~platform.commits[Visited(repos)[i]][j].message.isNone

FirstLine(message) == Split(message, "\n")[1]

\* a text contains, whatever its case, one of the keywords
TextHasKeyword(text) == \E keyword \in urgent_keywords : Contains(Lower(text), keyword)

\* C22 as stated: the message field of every Urgent Commit Record that
\* get_urgent_commits returns, the first line of the commit message,
\* itself contains one of the keywords, whatever its case.
C22_MessageFieldHasKeyword ==
    (op = "get_urgent_commits" /\ ret.kind = "return") =>
        \A k \in 1..Len(ret.value) : TextHasKeyword(ret.value[k].message)

\* C22 amended: every Urgent Commit Record that get_urgent_commits returns
\* stands for a listed commit whose whole message, all its lines, contains
\* one of the keywords whatever its case; the message field is the first
\* line of that message, and contains a keyword itself when the message
\* has a single line.
C22_WholeMessageHasKeyword ==
    (op = "get_urgent_commits" /\ ret.kind = "return") =>
        \A k \in 1..Len(ret.value) :
            LET rec == ret.value[k] IN
            \E j \in 1..Len(platform.commits[rec.repository]) :
                LET c == platform.commits[rec.repository][j] IN
                /\ rec.sha = SubSeq(c.sha, 1, 7)
                /\ MessageHasKeyword(c)
                /\ rec.message = FirstLine(c.message.v)
                /\ rec.message = c.message.v => TextHasKeyword(rec.message)

\* the commit "Tidy" / "hotfix" came back as a record whose message reads
\* "Tidy", next to the record of "Fix login bug"
C22_Witness ==
    /\ op = "get_urgent_commits"
    /\ ret.kind = "return"
    /\ Len(ret.value) = 2
    /\ platform.commits[ret.value[1].repository][1].message = Some(MsgSecondLine)
    /\ ret.value[1].message = <<"T", "i", "d", "y">>
    /\ ret.value[2].message = MsgFixLoginBug

\* the open pull requests of the visited repositories, in scan order, each
\* with the repository it was listed under
RECURSIVE ListedOpen(_)
ListedOpen(names) ==
    IF names = << >> THEN << >>
    ELSE [k \in 1..Len(platform.open[Head(names)]) |->
             [name |-> Head(names), pr |-> platform.open[Head(names)][k]]]
         \o ListedOpen(Tail(names))

OneRecordPerOpenPull ==
    LET listed == ListedOpen(Visited(repos)) IN
    /\ ret.kind = "return"
    /\ Len(ret.value) = Len(listed)
    /\ \A k \in 1..Len(listed) :
          /\ ret.value[k].number = listed[k].pr.number
          /\ ret.value[k].repository = listed[k].name
          /\ (listed[k].pr.review_fails \/ listed[k].pr.review_requests[1] = << >>)
                => ret.value[k].reviewers = << >>
          /\ (~listed[k].pr.review_fails)
                => ret.value[k].reviewers = listed[k].pr.review_requests[1]

\* C5 as stated: get_open_prs returns exactly one record per open pull
\* request that the platform returned, in repository order and then
\* platform order, with no reviewers when there are no review requests or
\* fetching them failed.
C5_OneRecordPerOpenPull ==
    (op = "get_open_prs" /\ ~Disabled(client, repos)) =>
        LET answered == SelectSeq(Visited(repos),
                            LAMBDA n : RepoStatus(platform, n) # "repo_error")
            listed == ListedOpen(answered) IN
        /\ Len(ret.value) = Len(listed)
        /\ \A k \in 1..Len(listed) :
              /\ ret.value[k].number = listed[k].pr.number
              /\ ret.value[k].repository = listed[k].name

\* C5 amended: when no repository fails to answer, get_open_prs returns
\* exactly one record per open pull request, in repository order and then
\* platform order; a record has no reviewers when the pull request has no
\* review requests or fetching them failed, and the requested reviewers
\* otherwise.
C5_OneRecordPerOpenPullWhenAllAnswer ==
    (op = "get_open_prs" /\ ~Disabled(client, repos) /\ AllAnswer) =>
        OneRecordPerOpenPull

\* two repositories were scanned, a reviewer fetch failed in each, and
\* every pull request is in the result
C5_Witness ==
    /\ op = "get_open_prs"
    /\ ~Disabled(client, repos)
    /\ AllAnswer
    /\ Visited(repos) = << R2, R1 >>
    /\ Len(platform.open[R1]) = 2
    /\ platform.open[R1][1].review_fails
    /\ platform.open[R1][2].review_requests[1] # << >>
    /\ Len(platform.open[R2]) = 1
    /\ platform.open[R2][1].review_fails
    /\ Len(ret.value) = 3
    /\ ret.value[1].repository = R2

\* building the record of the commit fails: the message cannot be read, or
\* there is no author metadata for the author's name or the date
ExtractionFails(c) == c.message.isNone \/ c.commit_author.isNone

\* C18: in get_urgent_commits a data-extraction failure on one commit (a
\* missing message, author or date) makes only that commit be skipped:
\* every keyword-matching commit of the scan whose data can be extracted,
\* before and after the failing one, is returned.
C18_OnlyFailingCommitSkipped ==
    (op = "get_urgent_commits" /\ ~Disabled(client, repos) /\ AllAnswer) =>
        /\ ret.kind = "return"
        /\ \A i \in 1..Len(Visited(repos)) :
              LET name == Visited(repos)[i] IN
              \A j \in 1..Len(platform.commits[name]) :
                  LET c == platform.commits[name][j] IN
                  IF ExtractionFails(c) THEN ~CommitRecordFor(name, c)
                  ELSE MessageHasKeyword(c) => CommitRecordFor(name, c)

\* C19: when an error other than a reviewer-fetch failure occurs while
\* get_open_prs is scanning (a repository cannot be fetched, or its
\* listing fails while it is read), get_open_prs returns the empty list:
\* the records of earlier repositories and earlier pull requests are
\* discarded.
C19_ErrorDiscardsPartialResults ==
    (op = "get_open_prs" /\ ~Disabled(client, repos) /\ ~AllAnswer) =>
        ret = Return(EmptyList)

\* the first repository was scanned and has open pull requests, fetching
\* the second failed, and nothing is returned
C19_Witness ==
    /\ op = "get_open_prs"
    /\ ~Disabled(client, repos)
    /\ Visited(repos) = << R1, R2 >>
    /\ RepoStatus(platform, R1) = "ok"
    /\ Len(platform.open[R1]) = 2
    /\ RepoStatus(platform, R2) = "repo_error"
    /\ calls = <<"get_repo", "get_pulls", "get_review_requests",
                 "get_review_requests", "get_repo">>
    /\ ret = Return(EmptyList)

\* the methods that the operation invoked, by name
InvokedMethods == { invoked[k].method : k \in 1..Len(invoked) }

\* ENABLE_PR_ANALYSIS is set and reads "true" in any letter case
FlagSaysTrue ==
    /\ ~enable_flag.isNone
    /\ Len(enable_flag.v) = 4
    /\ enable_flag.v[1] \in {"t", "T"}
    /\ enable_flag.v[2] \in {"r", "R"}
    /\ enable_flag.v[3] \in {"u", "U"}
    /\ enable_flag.v[4] \in {"e", "E"}

\* C12: the dictionary that collect returns always has the keys open_prs,
\* recent_merges and urgent_commits, and has the key pr_analyses exactly
\* when ENABLE_PR_ANALYSIS equals "true" in any letter case; when the flag
\* is not set to true, collect invokes neither get_pr_analyses nor
\* analyze_pr.
C12_AnalysesKeyIffFlag ==
    op = "collect" =>
        /\ ret.kind = "return" =>
              /\ {"open_prs", "recent_merges", "urgent_commits"} \subseteq DOMAIN ret.value
              /\ "pr_analyses" \in DOMAIN ret.value <=> FlagSaysTrue
              /\ DOMAIN ret.value \subseteq
                    {"open_prs", "recent_merges", "urgent_commits", "pr_analyses"}
        /\ ~FlagSaysTrue =>
              InvokedMethods \cap {"get_pr_analyses", "analyze_pr"} = {}

\* collect ran with the flag set to "TRUE": the dictionary has all four
\* keys and get_pr_analyses was invoked after the three listings
C12_Witness ==
    /\ op = "collect"
    /\ ret.kind = "return"
    /\ enable_flag = Some(<<"T", "R", "U", "E">>)
    /\ DOMAIN ret.value = {"open_prs", "recent_merges", "urgent_commits", "pr_analyses"}
    /\ Len(invoked) = 4
    /\ invoked[4].method = "get_pr_analyses"

(***************************************************************************)
(* BedrockSummarizer.analyze_pr_diff as an action, and the specification   *)
(* of pull-request analysis: the collector and the summarization service   *)
(* over the same pull request.                                             *)
(***************************************************************************)
AnalyzePrDiff ==
    LET r == analyze_pr_diff(bedrock, data, platform.model) IN
    /\ op' = "analyze_pr_diff"
    /\ args' = EmptyDict
    /\ ret' = r.ret
    /\ calls' = r.calls
    /\ last_prompt' = r.prompt
    /\ invoked' = << >>
    /\ UNCHANGED world

Bodies == {None, Some("Fixes the login flow")}

Details ==
    { PullDetail(11, body, Some("dev1"), files, FALSE) :
        body \in Bodies, files \in ChangedFiles(MaxFiles) }
    \cup { PullDetail(11, None, None, << >>, FALSE),
           PullDetail(11, Some("Fixes the login flow"), Some("dev1"), << >>, TRUE) }

\* a snapshot as analyze_pr builds it, or one whose builder left `body` out
Snapshots(d) ==
    { DiffData(d), [k \in DOMAIN DiffData(d) \ {"body"} |-> DiffData(d)[k]] }

BedrockStates ==
    { [client |-> TRUE, model_id |-> TRUE], [client |-> FALSE, model_id |-> TRUE],
      [client |-> TRUE, model_id |-> FALSE] }

\* every repository lists MaxPulls open pull requests
ManyOpen(name) == [i \in 1..MaxPulls |-> OpenPull(name, i, "plain")]

BatchNumbers(name) == { 10 * RepoIndex(name) + i : i \in 1..MaxPulls }

\* what get_pull and get_files answer for each listed pull request: the
\* pull request and its files, an error from get_pull, or an error from
\* get_files
BatchAnswers == {"ok", "pull_error", "files_error"}

BatchDetail(answer) ==
    [name \in RepoNames |->
        [n \in { x \in BatchNumbers(name) : answer[x] # "pull_error" } |->
            PullDetail(n, Some("Fixes the login flow"), Some("dev1"),
                       << ChangedFile(1, Some(<<"+", "x">>)) >>,
                       answer[n] = "files_error")]]

BatchPlatforms ==
    { Platform(AllOk, [name \in RepoNames |-> ManyOpen(name)], NoPulls, NoPulls,
               BatchDetail(answer), "ok") :
        answer \in [BatchNumbers(R1) \cup BatchNumbers(R2) -> BatchAnswers] }

AnalysisInit ==
    /\ client = GithubInit(Some("ghp_token"), TRUE)
    /\ ai_summarizer = FALSE
    /\ enable_flag = Some(FlagTrue)
    /\ \/ /\ repos = Split(R1, ",")
          /\ \E d \in Details :
                /\ \E reply \in {"ok", "raise"} :
                      platform = Platform(AllOk,
                                          (R1 :> << OpenPull(R1, 1, "plain") >>) @@ (R2 :> << >>),
                                          NoPulls, NoPulls, OneDetail(d), reply)
                /\ data \in Snapshots(d)
       \/ /\ repos = Split(R1 \o <<",", " ">> \o R2, ",")
          /\ platform \in BatchPlatforms
          /\ data = DiffData(PlainDetail)
    /\ bedrock \in BedrockStates
    /\ team_name = "Platform"
    /\ op = "init"
    /\ args = EmptyDict
    /\ ret = Return(EmptyDict)
    /\ calls = << >>
    /\ last_prompt = << >>
    /\ invoked = << >>

AnalysisNext ==
    \/ AnalyzePr
    \/ AnalyzePrDiff
    \/ GetPrAnalyses

AnalysisSpec == AnalysisInit /\ [][AnalysisNext]_vars

\* the changed files of the pull request that the last analysis was about
AnalyzedFiles ==
    IF op = "analyze_pr_diff" THEN data.files
    ELSE platform.detail[args.repo_name][args.pr_number].files

\* the prompt has one header segment and four segments per changed file,
\* the fourth holding the patch or its placeholder
PatchPosition(k) == 1 + 4 * k

\* C6: the prompt built by analyze_pr and by analyze_pr_diff contains no
\* patch longer than 3000 characters; where such a patch would stand, the
\* prompt has "[Diff too large to include]".
C6_NoLargePatchInPrompt ==
    (op \in {"analyze_pr", "analyze_pr_diff"} /\ last_prompt # << >>) =>
        \A k \in 1..Len(AnalyzedFiles) :
            LET patch == AnalyzedFiles[k].patch IN
            (~patch.isNone /\ Len(patch.v) > 3000) =>
                /\ \A n \in 1..Len(last_prompt) : ~Contains(last_prompt[n], patch.v)
                /\ last_prompt[PatchPosition(k)] = <<"\n[Diff too large to include]\n">>

\* analyze_pr_diff built the prompt of a pull request with a patch of 3001
\* characters and one of 2999, and only the second is in the prompt
C6_Witness ==
    /\ op = "analyze_pr_diff"
    /\ Len(data.files) = 2
    /\ data.files[1].patch = Some(PatchOf(3001))
    /\ data.files[2].patch = Some(PatchOf(2999))
    /\ last_prompt[PatchPosition(1)] = <<"\n[Diff too large to include]\n">>
    /\ Contains(last_prompt[PatchPosition(2)], PatchOf(2999))

\* C16: in the prompt built by analyze_pr and by analyze_pr_diff, the
\* present patch of a changed file is replaced by
\* "[Diff too large to include]" exactly when it is longer than 3000
\* characters; a present patch of 3000 characters or fewer, exactly 3000
\* included, stands verbatim between its fences.  (A present patch is a
\* patch with text in it.)
C16_PatchReplacedIffLonger ==
    (op \in {"analyze_pr", "analyze_pr_diff"} /\ last_prompt # << >>) =>
        \A k \in 1..Len(AnalyzedFiles) :
            LET patch == AnalyzedFiles[k].patch
                segment == last_prompt[PatchPosition(k)]
            IN  (~patch.isNone /\ patch.v # << >>) =>
                  IF Len(patch.v) > 3000
                  THEN segment = <<"\n[Diff too large to include]\n">>
                  ELSE segment = <<"\n'''\n">> \o patch.v \o <<"\n'''\n">>

\* the description of the pull request that the last analysis was about
AnalyzedBody ==
    IF op = "analyze_pr_diff"
    THEN (IF "body" \in DOMAIN data THEN data.body ELSE None)
    ELSE platform.detail[args.repo_name][args.pr_number].body

\* the text after "Description: " in the header of the prompt
DescriptionLine == last_prompt[1][6]

\* C17: when the analyzed pull request has no body text, the Description
\* line of the prompt built by analyze_pr, and by analyze_pr_diff on the
\* snapshot of that pull request, reads "No description provided.".
C17_DefaultDescription ==
    (op \in {"analyze_pr", "analyze_pr_diff"} /\ last_prompt # << >>) =>
        /\ last_prompt[1][5] = "\nDescription: "
        /\ AnalyzedBody.isNone => DescriptionLine = "No description provided."

\* the snapshot that the last analysis built its prompt from
AnalyzedSnapshot ==
    IF op = "analyze_pr_diff" THEN data
    ELSE DiffData(platform.detail[args.repo_name][args.pr_number])

\* C21: for every PR Diff Snapshot, the prompt constructed inside
\* analyze_pr is identical to the prompt that analyze_pr_diff constructs
\* from the same snapshot: the prompt that either of them built is the
\* text that the other builds.
C21_SamePromptInBothBuilders ==
    (op \in {"analyze_pr", "analyze_pr_diff"} /\ last_prompt # << >>) =>
        /\ Flatten(CollectorPrompt(AnalyzedSnapshot))
              = Flatten(build_pr_analysis_prompt(AnalyzedSnapshot))
        /\ op = "analyze_pr" =>
              Flatten(last_prompt) = Flatten(build_pr_analysis_prompt(AnalyzedSnapshot))
        /\ op = "analyze_pr_diff" =>
              Flatten(last_prompt) = Flatten(CollectorPrompt(AnalyzedSnapshot))

\* analyze_pr built the prompt of a pull request without description whose
\* two files have a patch of 3000 characters and no patch
C21_Witness ==
    /\ op = "analyze_pr"
    /\ last_prompt # << >>
    /\ AnalyzedSnapshot.body.isNone
    /\ Len(AnalyzedSnapshot.files) = 2
    /\ AnalyzedSnapshot.files[1].patch = Some(PatchOf(3000))
    /\ AnalyzedSnapshot.files[2].patch.isNone
    /\ last_prompt = build_pr_analysis_prompt(AnalyzedSnapshot)

\* the records of get_open_prs that get_pr_analyses may analyze
FirstListed == Take(get_open_prs(client, repos, platform).ret.value, 3)

\* the invocations of analyze_pr, in order
AnalyzeInvocations == SelectSeq(invoked, LAMBDA c : c.method = "analyze_pr")

\* the platform answers get_pull and get_files for the listed record
Analyzable(pr) ==
    /\ RepoStatus(platform, pr.repository) = "ok"
    /\ pr.number \in DOMAIN platform.detail[pr.repository]
    /\ ~platform.detail[pr.repository][pr.number].files_fail

\* C15: get_pr_analyses invokes analyze_pr for the first 3 records of
\* get_open_prs and for no other, in listing order, and returns at most 3
\* PR Analysis Records in that order: the records of those among the first
\* 3 whose analysis did not fail; a failed analysis is skipped and no
\* later open pull request takes its place.
C15_FirstThreeAnalyzed ==
    (op = "get_pr_analyses" /\ ~Disabled(client, repos)) =>
        LET analyzed == SelectSeq(FirstListed, Analyzable) IN
        /\ Len(AnalyzeInvocations) = Len(FirstListed)
        /\ \A k \in 1..Len(FirstListed) :
              /\ AnalyzeInvocations[k].args.repo_name = FirstListed[k].repository
              /\ AnalyzeInvocations[k].args.pr_number = FirstListed[k].number
        /\ ret.kind = "return"
        /\ Len(ret.value) <= 3
        /\ Len(ret.value) = Len(analyzed)
        /\ \A k \in 1..Len(analyzed) :
              /\ ret.value[k].pr_number = analyzed[k].number
              /\ ret.value[k].repo = analyzed[k].repository

\* four pull requests are open, the analysis of the second fails: the
\* first and the third are returned, the fourth is not analyzed
C15_Witness ==
    /\ op = "get_pr_analyses"
    /\ Len(get_open_prs(client, repos, platform).ret.value) >= 4
    /\ Analyzable(FirstListed[1])
    /\ ~Analyzable(FirstListed[2])
    /\ Analyzable(FirstListed[3])
    /\ Len(AnalyzeInvocations) = 3
    /\ Len(ret.value) = 2
    /\ ret.value[1].pr_number = FirstListed[1].number
    /\ ret.value[2].pr_number = FirstListed[3].number

(***************************************************************************)
(* The collected data that the summarization service and the formatter     *)
(* read: data = {jira: {...}, github: {...}, database: {...}}, every key    *)
(* optional.  Records have the shape the readers expect.                   *)
(***************************************************************************)
Ticket(i) ==
    [key |-> "T-" \o ToString(i), summary |-> "ticket " \o ToString(i),
     status |-> "Open"]

BlockedTask(i) ==
    [key |-> "B-" \o ToString(i), summary |-> "blocked " \o ToString(i),
     assignee |-> "dev" \o ToString(i)]

Transition(to) == [from |-> "Open", to |-> to, author |-> "dev1", time |-> "09:00"]

\* every third record moved to "In Progress" only; of the others, the even
\* ones were resolved, reopened and done (two completions), the odd ones
\* closed once
StatusChange(i) ==
    [key |-> "S-" \o ToString(i), summary |-> "changed " \o ToString(i),
     status_changes |->
        IF i % 3 = 0 THEN << Transition("In Progress") >>
        ELSE IF i % 2 = 0
        THEN << Transition("Resolved"), Transition("In Progress"), Transition("Done") >>
        ELSE << Transition("In Progress"), Transition("Closed") >>]

OpenPrRecord(i) ==
    [number |-> i, title |-> "title" \o ToString(i), url |-> "url" \o ToString(i),
     author |-> "dev" \o ToString(i), created_at |-> 40, days_open |-> i,
     repository |-> "r1",
     reviewers |-> CASE i % 3 = 1 -> << >>
                     [] i % 3 = 2 -> <<"alice", "bob">>
                     [] OTHER -> <<"alice", "bob", "carol", "dan">>]

MergeRecord(i) ==
    [number |-> 100 + i, title |-> "merged" \o ToString(i),
     url |-> "url" \o ToString(100 + i), author |-> "dev" \o ToString(i),
     merged_at |-> 990, repository |-> "r1", merged_by |-> "lead"]

CommitRecord(i) ==
    [sha |-> "abcdef" \o ToString(i), message |-> "Fix " \o ToString(i),
     url |-> "commit" \o ToString(i), author |-> "dev" \o ToString(i),
     date |-> 995, repository |-> "r1"]

ListOf(Item(_), n) == [i \in 1..n |-> Item(i)]

JiraData(t, b, c) ==
    [new_tickets |-> ListOf(Ticket, t), blocked_tasks |-> ListOf(BlockedTask, b),
     status_changes |-> ListOf(StatusChange, c)]

GithubData(o, m, u) ==
    [open_prs |-> ListOf(OpenPrRecord, o), recent_merges |-> ListOf(MergeRecord, m),
     urgent_commits |-> ListOf(CommitRecord, u)]

\* len(d.get(section, {}).get(key, []))
CountOf(d, section, key) ==
    Len(DictGet(DictGet(d, section, EmptyDict), key, << >>))

(***************************************************************************)
(* BedrockSummarizer.generate_simple_summary                               *)
(***************************************************************************)
RECURSIVE Join(_, _)
\* sep.join(parts), each part and the result a sequence of fragments
Join(parts, sep) ==
    IF parts = << >> THEN << >>
    ELSE IF Len(parts) = 1 THEN Head(parts)
    ELSE Head(parts) \o << sep >> \o Join(Tail(parts), sep)

\* a category is only counted from two items on
Part_FromTwo(n, phrase) == IF n > 1 THEN << << ToString(n), phrase >> >> ELSE << >>

Part(n, phrase) == IF n > 0 THEN << << ToString(n), phrase >> >> ELSE << >>

SummaryParts(new_tickets_count, blocked_tasks_count, open_prs_count,
             merged_prs_count, urgent_commits_count) ==
    Part(new_tickets_count, " new Jira tickets were created")
    \o Part(blocked_tasks_count, " tasks are currently blocked")
    \o Part(open_prs_count, " pull requests are waiting for review")
    \o Part(merged_prs_count, " pull requests were merged yesterday")
    \o Part(urgent_commits_count, " urgent commits were made yesterday")

QuietGreeting(team) ==
    <<"Good morning, ", team, "!", " No significant updates",
      " or issues to report today. Everything appears to be running smoothly.">>

PriorityStatement(blocked_tasks_count, open_prs_count) ==
    IF blocked_tasks_count > 0
    THEN <<" Priority should be given to resolving the ",
           ToString(blocked_tasks_count), " blocked tasks.">>
    ELSE IF open_prs_count > 0
    THEN <<" Consider reviewing the open pull requests to keep development moving forward.">>
    ELSE << >>

generate_simple_summary(d, team) ==
    LET new_tickets_count == CountOf(d, "jira", "new_tickets")
        blocked_tasks_count == CountOf(d, "jira", "blocked_tasks")
        open_prs_count == CountOf(d, "github", "open_prs")
        merged_prs_count == CountOf(d, "github", "recent_merges")
        urgent_commits_count == CountOf(d, "github", "urgent_commits")
        summary_parts == SummaryParts(new_tickets_count, blocked_tasks_count,
                                      open_prs_count, merged_prs_count,
                                      urgent_commits_count)
        n == Len(summary_parts)
    IN  IF summary_parts = << >> THEN QuietGreeting(team)
        ELSE <<"Here's today's update for ", team, ": ">>
             \o Join(SubSeq(summary_parts, 1, n - 1), ", ")
             \o (IF n > 1 THEN <<", and ">> \o summary_parts[n] \o <<".">>
                 ELSE <<" ">> \o summary_parts[1] \o <<".">>)
             \o PriorityStatement(blocked_tasks_count, open_prs_count)

GenerateSimpleSummary ==
    /\ op' = "generate_simple_summary"
    /\ args' = [team_name |-> team_name]
    /\ ret' = Return(generate_simple_summary(data, team_name))
    /\ calls' = << >>
    /\ last_prompt' = << >>
    /\ invoked' = << >>
    /\ UNCHANGED world

(***************************************************************************)
(* BedrockSummarizer.generate_summary and the prompt it sends.  The six    *)
(* list categories are formatted the same way: a header with the count,    *)
(* one line for each of the first five items, a "Plus n more" line, or a   *)
(* fixed line when the list is empty.  An item is a record; item['key'] on *)
(* an item without that key raises KeyError, and [-1] on an empty list     *)
(* raises IndexError.                                                      *)
(***************************************************************************)
PromptCap == 5

JiraCategories == <<"new_tickets", "status_changes", "blocked_tasks">>
GithubCategories == <<"open_prs", "recent_merges", "urgent_commits">>

PromptTitle(category) ==
    CASE category = "new_tickets" -> "NEW TICKETS"
      [] category = "status_changes" -> "STATUS CHANGES"
      [] category = "blocked_tasks" -> "BLOCKED TASKS"
      [] category = "open_prs" -> "OPEN PULL REQUESTS"
      [] category = "recent_merges" -> "RECENT MERGES"
      [] category = "urgent_commits" -> "URGENT COMMITS"

PromptNoneLine(category) ==
    CASE category = "new_tickets" -> "NEW TICKETS: None in the last 24 hours"
      [] category = "status_changes" -> "\nSTATUS CHANGES: None in the last 24 hours"
      [] category = "blocked_tasks" -> "\nBLOCKED TASKS: None currently"
      [] category = "open_prs" -> "OPEN PULL REQUESTS: None currently"
      [] category = "recent_merges" -> "\nRECENT MERGES: None in the last 24 hours"
      [] category = "urgent_commits" -> "\nURGENT COMMITS: None in the last 24 hours"

PromptMoreWords(category) ==
    CASE category = "new_tickets" -> " more new tickets"
      [] category = "status_changes" -> " more status changes"
      [] category = "blocked_tasks" -> " more blocked tasks"
      [] category = "open_prs" -> " more open PRs"
      [] category = "recent_merges" -> " more recent merges"
      [] category = "urgent_commits" -> " more urgent commits"

\* the keys of an item that its line subscripts
PromptKeys(category) ==
    CASE category = "new_tickets" -> {"key", "summary", "status"}
      [] category = "status_changes" -> {"status_changes", "key"}
      [] category = "blocked_tasks" -> {"key", "summary", "assignee"}
      [] category = "open_prs" -> {"number", "title", "author", "days_open"}
      [] category = "recent_merges" -> {"number", "title", "author"}
      [] category = "urgent_commits" -> {"sha", "message", "author"}

\* the exception that formatting the item's line raises, "" when none
PromptLineError(category, item) ==
    IF category = "status_changes" /\ "status_changes" \in DOMAIN item
       /\ item.status_changes = << >>
    THEN "IndexError"
    ELSE IF ~(PromptKeys(category) \subseteq DOMAIN item) THEN "KeyError"
    ELSE IF category = "status_changes"
            /\ ~({"from", "to", "author"} \subseteq
                    DOMAIN item.status_changes[Len(item.status_changes)])
    THEN "KeyError"
    ELSE ""

PromptLine(category, item) ==
    CASE category = "new_tickets" ->
            <<"- ", item.key, ": ", item.summary, " (", item.status, ")">>
      [] category = "status_changes" ->
            LET last_change == item.status_changes[Len(item.status_changes)] IN
            <<"- ", item.key, ": Changed from '", last_change.from, "' to '",
              last_change.to, "' by ", last_change.author>>
      [] category = "blocked_tasks" ->
            <<"- ", item.key, ": ", item.summary, " (Assigned to: ",
              item.assignee, ")">>
      [] category = "open_prs" ->
            <<"- #", ToString(item.number), " ", item.title, " by ", item.author,
              " (", ToString(item.days_open), " days open)">>
      [] category = "recent_merges" ->
            <<"- #", ToString(item.number), " ", item.title, " by ", item.author>>
      [] category = "urgent_commits" ->
            <<"- ", item.sha, " ", item.message, " by ", item.author>>

\* the lines of one category, or the exception of the first item (among
\* the first five) whose line cannot be formatted
PromptSection(category, items, first) ==
    LET shown == Take(items, PromptCap)
        bad == { k \in 1..Len(shown) : PromptLineError(category, shown[k]) # "" }
    IN  IF items = << >> THEN Return(<< << PromptNoneLine(category) >> >>)
        ELSE IF bad # {}
        THEN Raise(PromptLineError(category,
                       shown[CHOOSE k \in bad : \A m \in bad : k <= m]))
        ELSE Return(
               << << (IF first THEN "" ELSE "\n") \o PromptTitle(category),
                     " (", ToString(Len(items)), "):" >> >>
               \o [k \in 1..Len(shown) |-> PromptLine(category, shown[k])]
               \o (IF Len(items) > PromptCap
                   THEN << << "- Plus ", ToString(Len(items) - PromptCap),
                              PromptMoreWords(category) >> >>
                   ELSE << >>))

RECURSIVE PromptSections(_, _, _, _)
\* the categories in order, stopping at the first exception
PromptSections(section_data, categories, k, acc) ==
    IF k > Len(categories) THEN Return(Join(acc, "\n"))
    ELSE
      LET r == PromptSection(categories[k],
                             DictGet(section_data, categories[k], << >>), k = 1)
      IN  IF r.kind = "raise" THEN r
          ELSE PromptSections(section_data, categories, k + 1, acc \o r.value)

format_jira_for_prompt(jira_data) ==
    PromptSections(jira_data, JiraCategories, 1, << >>)

format_github_for_prompt(github_data) ==
    PromptSections(github_data, GithubCategories, 1, << >>)

PromptTask ==
    "\n\nBased on this data, please provide:\n1. A brief summary (2-3 sentences) highlighting the most important information\n2. Key observations about current status and blockers\n3. Any connections between different issues (e.g., if GitHub commits relate to Jira tickets)\n4. Suggested priorities or actions for the team\n\nYour response should be professional but friendly in tone, around 150-200 words total.\n"

create_prompt(d, team) ==
    LET jira_section == format_jira_for_prompt(DictGet(d, "jira", EmptyDict))
        github_section == format_github_for_prompt(DictGet(d, "github", EmptyDict))
    IN  IF jira_section.kind = "raise" THEN jira_section
        ELSE IF github_section.kind = "raise" THEN github_section
        ELSE Return(
               <<"\nYou are a helpful assistant for the ", team,
                 " team. Your task is to create a concise, informative daily update based on the data below.\nFocus on actionable insights and highlight the most important issues that need attention. Also mention any positive accomplishments.\n\n===== JIRA DATA =====\n">>
               \o jira_section.value
               \o <<"\n\n===== GITHUB DATA =====\n">>
               \o github_section.value
               \o <<PromptTask>>)

ConfigurationIssue == <<"Unable to generate AI summary due to configuration issues.">>
SummaryError == "Unable to generate AI summary. Error: "

\* _create_prompt runs before the try block: what it raises leaves
\* generate_summary
generate_summary(bd, d, team, reply) ==
    IF ~bd.client \/ ~bd.model_id
    THEN [ret |-> Return(ConfigurationIssue), calls |-> << >>, prompt |-> << >>]
    ELSE
      LET prompt == create_prompt(d, team) IN
      IF prompt.kind = "raise"
      THEN [ret |-> prompt, calls |-> << >>, prompt |-> << >>]
      ELSE [ret |-> InvokeAndParse(reply, SummaryError),
            calls |-> <<"invoke_model">>, prompt |-> prompt.value]

GenerateSummary ==
    LET r == generate_summary(bedrock, data, team_name, platform.model) IN
    /\ op' = "generate_summary"
    /\ args' = [team_name |-> team_name]
    /\ ret' = r.ret
    /\ calls' = r.calls
    /\ last_prompt' = r.prompt
    /\ invoked' = << >>
    /\ UNCHANGED world

CustomPrompts == { <<"Summarize the release notes.">>, << >> }

GenerateCustomText ==
    \E prompt \in CustomPrompts :
        LET r == generate_custom_text(bedrock, prompt, platform.model) IN
        /\ op' = "generate_custom_text"
        /\ args' = [prompt |-> prompt]
        /\ ret' = r.ret
        /\ calls' = r.calls
        /\ last_prompt' = prompt
        /\ invoked' = << >>
        /\ UNCHANGED world

(***************************************************************************)
(* The summarization service's specification.                              *)
(***************************************************************************)
SummaryCounts == {0, 1, 3}

\* records that lack a field their prompt line subscripts
TicketWithoutKey == [summary |-> "no key", status |-> "Open"]
ChangeWithoutTransitions ==
    [key |-> "S-9", summary |-> "never moved", status_changes |-> << >>]
OpenPrWithoutAuthor == [number |-> 3, title |-> "title3", days_open |-> 1]

\* collected data with one such record, at the start of a list, behind
\* well-formed records, and behind the first five
MalformedInputs ==
    { [jira |-> [new_tickets |-> << TicketWithoutKey >>]],
      [jira |-> [new_tickets |-> ListOf(Ticket, 2) \o << TicketWithoutKey >>],
       github |-> GithubData(1, 0, 0)],
      [jira |-> [new_tickets |-> ListOf(Ticket, 5) \o << TicketWithoutKey >>]],
      [jira |-> [status_changes |-> << ChangeWithoutTransitions >>]],
      [jira |-> JiraData(1, 0, 0),
       github |-> [open_prs |-> << OpenPrWithoutAuthor >>]],
      [jira |-> JiraData(6, 0, 0), github |-> GithubData(0, 6, 0)] }

\* the collected data with none, some or all of its sections and lists
SummaryInputs ==
    { [jira |-> JiraData(t, b, 0), github |-> GithubData(o, m, u)] :
        t \in SummaryCounts, b \in SummaryCounts, o \in SummaryCounts,
        m \in SummaryCounts, u \in SummaryCounts }
    \cup { EmptyDict,
           [jira |-> EmptyDict, github |-> EmptyDict],
           [jira |-> JiraData(0, 0, 2)],
           [github |-> GithubData(2, 0, 0)],
           [jira |-> [blocked_tasks |-> ListOf(BlockedTask, 2)]] }
    \cup MalformedInputs

NoPlatform(reply) == Platform(AllOk, NoPulls, NoPulls, NoPulls, NoDetail, reply)

SummarizerInit ==
    /\ client = FALSE
    /\ repos = << << >> >>
    /\ ai_summarizer = FALSE
    /\ enable_flag = None
    /\ bedrock \in BedrockStates
    /\ \E reply \in ModelReplies : platform = NoPlatform(reply)
    /\ data \in SummaryInputs
    /\ team_name \in {"Platform", "Web"}
    /\ op = "init"
    /\ args = EmptyDict
    /\ ret = Return(EmptyDict)
    /\ calls = << >>
    /\ last_prompt = << >>
    /\ invoked = << >>

SummarizerNext ==
    \/ GenerateSimpleSummary
    \/ GenerateSummary
    \/ GenerateCustomText

SummarizerSpec == SummarizerInit /\ [][SummarizerNext]_vars

\* the five counted categories: where the list is, and the phrase
Categories == {"new_tickets", "blocked_tasks", "open_prs", "recent_merges",
               "urgent_commits"}

SectionOf(c) == IF c \in {"new_tickets", "blocked_tasks"} THEN "jira" ELSE "github"

PhraseOf(c) ==
    CASE c = "new_tickets" -> " new Jira tickets were created"
      [] c = "blocked_tasks" -> " tasks are currently blocked"
      [] c = "open_prs" -> " pull requests are waiting for review"
      [] c = "recent_merges" -> " pull requests were merged yesterday"
      [] c = "urgent_commits" -> " urgent commits were made yesterday"

\* how many items the data holds in category c
Holds(c) ==
    IF SectionOf(c) \in DOMAIN data /\ c \in DOMAIN data[SectionOf(c)]
    THEN Len(data[SectionOf(c)][c]) ELSE 0

\* the fragments t occur in text, one after the other
Occurs(text, t) ==
    \E i \in 0..(Len(text) - Len(t)) : \A j \in 1..Len(t) : text[i + j] = t[j]

\* C7: generate_simple_summary returns the greeting "Good morning,
\* {team_name}! No significant updates ..." exactly when all five counts
\* are zero; otherwise the result has the phrase of every non-zero
\* category with its count and of no zero category, and its enumerating
\* sentence ends with a period that follows a phrase, nothing comma-joined
\* after it.
C7_SimpleSummary ==
    op = "generate_simple_summary" =>
        LET text == ret.value
            quiet == \A c \in Categories : Holds(c) = 0
            greets == /\ Len(text) >= 4
                      /\ SubSeq(text, 1, 4) =
                            <<"Good morning, ", team_name, "!", " No significant updates">>
        IN  /\ quiet <=> greets
            /\ ~quiet =>
                  /\ \A c \in Categories :
                        IF Holds(c) > 0
                        THEN Occurs(text, <<ToString(Holds(c)), PhraseOf(c)>>)
                        ELSE \A i \in 1..Len(text) : text[i] # PhraseOf(c)
                  /\ \E k \in 2..Len(text) :
                        /\ text[k] = "."
                        /\ \E c \in Categories : text[k - 1] = PhraseOf(c)
                        /\ \A i \in 1..(k - 1) : text[i] # "."
                        /\ \A i \in (k + 1)..Len(text) : text[i] \notin {", ", ", and "}

\* three new tickets and nothing else: "... 3 new Jira tickets were
\* created."
C7_Witness ==
    /\ op = "generate_simple_summary"
    /\ Holds("new_tickets") = 3
    /\ \A c \in Categories \ {"new_tickets"} : Holds(c) = 0
    /\ Len(ret.value) = 7
    /\ SubSeq(ret.value, 5, 7) = <<"3", " new Jira tickets were created", ".">>

\* the summarization service is configured: client and model id are set
Configured == bedrock.client /\ bedrock.model_id

\* the invocation or the parsing of its response fails
InvocationFails == platform.model \in {"raise", "empty_content"}

\* C11: generate_summary never raises: for every data dictionary and every
\* client state it returns a string, the configuration-issue apology when
\* the client or the model id is unset, and the invocation-error apology
\* with the error text when building the request, sending it or parsing
\* the response fails.
C11_GenerateSummaryNeverRaises ==
    op = "generate_summary" =>
        /\ ret.kind = "return"
        /\ ~Configured => ret.value = ConfigurationIssue
        /\ (Configured /\ (InvocationFails
                           \/ create_prompt(data, team_name).kind = "raise")) =>
              /\ Len(ret.value) = 2
              /\ ret.value[1] = SummaryError

\* how many times the last operation invoked the model
ModelInvocations == Len(SelectSeq(calls, LAMBDA c : c = "invoke_model"))

\* C20: a call of generate_summary or of generate_custom_text issues
\* exactly one model invocation when the client and the model id are set,
\* and none when either is unset; a failed invocation is not retried: the
\* call ends with the apology string after the single attempt.
C20_OneInvocationPerCall ==
    op \in {"generate_summary", "generate_custom_text"} =>
        /\ Configured => ModelInvocations = 1
        /\ ~Configured => ModelInvocations = 0
        /\ (Configured /\ InvocationFails) =>
              /\ ret.kind = "return"
              /\ Len(ret.value) = 2
              /\ ret.value[1] = (IF op = "generate_summary" THEN SummaryError
                                 ELSE "Unable to generate text. Error: ")

(***************************************************************************)
(* TeamsFormatter.  The card body is a sequence of blocks; a block is a    *)
(* record that has exactly the keys the code writes.  U+2022 at the start  *)
(* of an item line is written "(bullet) ".                                 *)
(***************************************************************************)
DisplayCap == 5
AnalysisCap == 3
AnalysisTextCap == 500

Bullet == "(bullet) "

Line(text) == [type |-> "TextBlock", text |-> text, wrap |-> TRUE]

SpacedLine(text) ==
    [type |-> "TextBlock", text |-> text, wrap |-> TRUE, spacing |-> "Medium"]

SectionHeader(text) ==
    [type |-> "TextBlock", text |-> text, weight |-> "Bolder", size |-> "Medium",
     spacing |-> "Medium"]

SubtleLine(text) ==
    [type |-> "TextBlock", text |-> text, isSubtle |-> TRUE, wrap |-> TRUE]

\* the overflow line already at exactly five items
Overflow_FromCap(n, what) ==
    IF n >= DisplayCap
    THEN << SubtleLine(<<"...and ", ToString(n - DisplayCap), what>>) >>
    ELSE << >>

\* the overflow line after the first five items of a list of n
Overflow(n, what) ==
    IF n > DisplayCap
    THEN << SubtleLine(<<"...and ", ToString(n - DisplayCap), what>>) >>
    ELSE << >>

\* any(d.values()): some value of the dict is a non-empty list or dict
AnyValue(d) == \E k \in DOMAIN d : d[k] # << >>

\* the test without any(): a dict of empty lists counts as content
HasContent_NonEmptyDict(d) == d # EmptyDict

\* `d and any(d.values())`
HasContent(d) == d # EmptyDict /\ AnyValue(d)

\* the transitions of the status-change records that end in a completed
\* status, as completed-task entries, in scan order
CompletedOf(change) ==
    LET scs == DictGet(change, "status_changes", << >>)
        done == SelectSeq(scs, LAMBDA sc : DictGet(sc, "to", "") \in {"Done", "Closed", "Resolved"})
    IN  [k \in 1..Len(done) |->
            [key |-> change.key, summary |-> change.summary,
             author |-> done[k].author, time |-> done[k].time]]

RECURSIVE Completed(_)
Completed(status_changes) ==
    IF status_changes = << >> THEN << >>
    ELSE CompletedOf(Head(status_changes)) \o Completed(Tail(status_changes))

TicketLine(ticket) ==
    Line(<<Bullet, ticket.key, ": ", ticket.summary, " (", ticket.status, ")">>)

BlockedLine(task) ==
    Line(<<Bullet, task.key, ": ", task.summary, " (Assigned to: ", task.assignee, ")">>)

CompletedLine(task) ==
    Line(<<Bullet, task.key, ": ", task.summary, " (by ", task.author, ")">>)

Lines(LineOf(_), items) ==
    [k \in 1..Min(DisplayCap, Len(items)) |-> LineOf(items[k])]

\* TeamsFormatter._add_jira_section: the blocks it appends
add_jira_section(jira_data) ==
    LET new_tickets == DictGet(jira_data, "new_tickets", << >>)
        blocked_tasks == DictGet(jira_data, "blocked_tasks", << >>)
        status_changes == DictGet(jira_data, "status_changes", << >>)
        completed == Completed(status_changes)
    IN  << SectionHeader(<<"[puzzle] Jira Updates">>) >>
        \o (IF new_tickets # << >>
            THEN << Line(<<"[inbox] ", ToString(Len(new_tickets)),
                           " new tickets were created yesterday:">>) >>
                 \o Lines(TicketLine, new_tickets)
                 \o Overflow(Len(new_tickets), " more new tickets")
            ELSE << Line(<<"No new tickets created yesterday.">>) >>)
        \o (IF blocked_tasks # << >>
            THEN << SpacedLine(<<"[warning] ", ToString(Len(blocked_tasks)),
                                 " tasks are currently blocked:">>) >>
                 \o Lines(BlockedLine, blocked_tasks)
                 \o Overflow(Len(blocked_tasks), " more blocked tasks")
            ELSE << >>)
        \o (IF completed # << >>
            THEN << SpacedLine(<<"[check] ", ToString(Len(completed)),
                                 " tasks were completed yesterday:">>) >>
                 \o Lines(CompletedLine, completed)
                 \o Overflow(Len(completed), " more completed tasks")
            ELSE << >>)

ReviewerText(pr) ==
    LET reviewers == DictGet(pr, "reviewers", << >>) IN
    IF reviewers = << >> THEN << >>
    ELSE <<" (Reviewers: ">> \o Join([k \in 1..Min(2, Len(reviewers)) |-> << reviewers[k] >>], ", ")
         \o <<")">>
         \o (IF Len(reviewers) > 2
             THEN <<" +", ToString(Len(reviewers) - 2), " more">> ELSE << >>)

OpenPrLine(pr) ==
    Line(<<Bullet, "#", ToString(pr.number), ": ", pr.title, " by ", pr.author>>
         \o ReviewerText(pr))

MergeLine(pr) ==
    Line(<<Bullet, "#", ToString(pr.number), ": ", pr.title, " by ", pr.author>>)

CommitLine(commit) ==
    Line(<<Bullet, commit.sha, ": ", commit.message, " by ", commit.author>>)

\* TeamsFormatter._add_github_section: the blocks it appends
add_github_section(github_data) ==
    LET open_prs == DictGet(github_data, "open_prs", << >>)
        recent_merges == DictGet(github_data, "recent_merges", << >>)
        urgent_commits == DictGet(github_data, "urgent_commits", << >>)
    IN  << SectionHeader(<<"[tools] GitHub Activity">>) >>
        \o (IF open_prs # << >>
            THEN << Line(<<"[cycle] ", ToString(Len(open_prs)),
                           " open pull requests waiting for review:">>) >>
                 \o Lines(OpenPrLine, open_prs)
                 \o Overflow(Len(open_prs), " more open PRs")
            ELSE << Line(<<"No open pull requests waiting for review.">>) >>)
        \o (IF recent_merges # << >>
            THEN << SpacedLine(<<"[check] ", ToString(Len(recent_merges)),
                                 " pull requests were merged yesterday:">>) >>
                 \o Lines(MergeLine, recent_merges)
                 \o Overflow(Len(recent_merges), " more merged PRs")
            ELSE << >>)
        \o (IF urgent_commits # << >>
            THEN << SpacedLine(<<"[siren] ", ToString(Len(urgent_commits)),
                                 " urgent commits detected yesterday:">>) >>
                 \o Lines(CommitLine, urgent_commits)
                 \o Overflow(Len(urgent_commits), " more urgent commits")
            ELSE << >>)

NoAnalysisAvailable ==
    <<"N", "o", " ", "a", "n", "a", "l", "y", "s", "i", "s", " ",
      "a", "v", "a", "i", "l", "a", "b", "l", "e">>

\* the cut applied to a text of exactly 500 characters too
ShownAnalysis_CutsAtCap(analysis_text) ==
    IF Len(analysis_text) >= AnalysisTextCap
    THEN SubSeq(analysis_text, 1, AnalysisTextCap) \o <<"...">>
    ELSE analysis_text

\* the analysis text as shown: cut after 500 characters, then "..."
ShownAnalysis(analysis_text) ==
    IF Len(analysis_text) > AnalysisTextCap
    THEN SubSeq(analysis_text, 1, AnalysisTextCap) \o <<"...">>
    ELSE analysis_text

AnalysisBlocks(analysis) ==
    LET pr_number == IF "pr_number" \in DOMAIN analysis
                     THEN ToString(analysis.pr_number) ELSE "None"
        repo == DictGet(analysis, "repo", "")
        title == DictGet(analysis, "title", "Untitled PR")
        author == DictGet(analysis, "author", "Unknown")
        analysis_text == DictGet(analysis, "analysis", NoAnalysisAvailable)
        url == DictGet(analysis, "url", "")
    IN  << [type |-> "TextBlock", text |-> <<"**PR #", pr_number, ": ", title, "**">>,
            weight |-> "Bolder", wrap |-> TRUE, spacing |-> "Medium"],
           SubtleLine(<<"Repository: ", repo, " | Author: ", author>>),
           Line(<<"---">>),
           Line(ShownAnalysis(analysis_text)) >>
        \o (IF url # ""
            THEN << [type |-> "ActionSet",
                     actions |-> << [type |-> "Action.OpenUrl",
                                     title |-> "View Pull Request", url |-> url] >>] >>
            ELSE << >>)

RECURSIVE AnalysesBlocks(_)
AnalysesBlocks(pr_analyses) ==
    IF pr_analyses = << >> THEN << >>
    ELSE AnalysisBlocks(Head(pr_analyses)) \o AnalysesBlocks(Tail(pr_analyses))

\* TeamsFormatter._add_pr_analyses_section: the blocks it appends
add_pr_analyses_section(pr_analyses) ==
    << SectionHeader(<<"[magnifier] Pull Request Analyses">>) >>
    \o (IF pr_analyses = << >> THEN << Line(<<"No PR analyses available.">>) >>
        ELSE AnalysesBlocks(Take(pr_analyses, AnalysisCap))
             \o (IF Len(pr_analyses) > AnalysisCap
                 THEN << [type |-> "TextBlock",
                          text |-> <<"...and ", ToString(Len(pr_analyses) - AnalysisCap),
                                     " more PR analyses">>,
                          isSubtle |-> TRUE, wrap |-> TRUE, spacing |-> "Small"] >>
                 ELSE << >>))

\* TeamsFormatter._add_database_section: the blocks it appends
add_database_section(db_data) ==
    LET activity_stats == DictGet(db_data, "activity_stats", EmptyDict)
        team_metrics == DictGet(db_data, "team_metrics", EmptyDict)
    IN  IF activity_stats = EmptyDict THEN << >>
        ELSE << SectionHeader(<<"[chart] Weekly Database Insights">>),
                Line(<<Bullet, ToString(DictGet(activity_stats, "weekly_prs", 0)),
                       " PRs this week\n",
                       Bullet, ToString(DictGet(activity_stats, "weekly_tickets", 0)),
                       " tickets created\n",
                       Bullet, ToString(DictGet(activity_stats, "weekly_completed", 0)),
                       " tickets completed\n">>) >>
             \o (IF team_metrics # EmptyDict
                 THEN << [type |-> "TextBlock",
                          text |-> <<"Team size: ",
                                     ToString(DictGet(team_metrics, "member_count", 0)),
                                     " members | ",
                                     ToString(DictGet(team_metrics, "github_users", 0)),
                                     " using GitHub">>,
                          wrap |-> TRUE, isSubtle |-> TRUE] >>
                 ELSE << >>)

QuietDay ==
    [type |-> "TextBlock",
     text |-> <<"No updates found for today. It's a quiet day! [smile]">>,
     wrap |-> TRUE, spacing |-> "Medium"]

\* the body with the source-hosting sections built before the tracker's
DigestBody_GithubFirst(team, d, ai_summary) ==
    LET jira_data == DictGet(d, "jira", EmptyDict)
        github_data == DictGet(d, "github", EmptyDict)
        db_data == DictGet(d, "database", EmptyDict)
    IN  << [type |-> "TextBlock", text |-> <<"[sunrise] Good morning, ", team, "!">>,
            weight |-> "Bolder", size |-> "Large", wrap |-> TRUE],
           Line(<<"Here's your daily project digest:">>) >>
        \o (IF ai_summary # << >>
            THEN << SectionHeader(<<"[bulb] AI Summary">>), Line(ai_summary) >>
            ELSE << >>)
        \o (IF HasContent(github_data)
            THEN add_github_section(github_data)
                 \o (IF "pr_analyses" \in DOMAIN github_data
                        /\ github_data["pr_analyses"] # << >>
                     THEN add_pr_analyses_section(github_data["pr_analyses"])
                     ELSE << >>)
            ELSE << >>)
        \o (IF HasContent(jira_data) THEN add_jira_section(jira_data) ELSE << >>)
        \o (IF HasContent(db_data) THEN add_database_section(db_data) ELSE << >>)
        \o (IF ~HasContent(jira_data) /\ ~HasContent(github_data)
            THEN << QuietDay >> ELSE << >>)

\* the body without the block of the quiet day
DigestBody_NoQuietDay(team, d, ai_summary) ==
    LET jira_data == DictGet(d, "jira", EmptyDict)
        github_data == DictGet(d, "github", EmptyDict)
        db_data == DictGet(d, "database", EmptyDict)
    IN  << [type |-> "TextBlock", text |-> <<"[sunrise] Good morning, ", team, "!">>,
            weight |-> "Bolder", size |-> "Large", wrap |-> TRUE],
           Line(<<"Here's your daily project digest:">>) >>
        \o (IF ai_summary # << >>
            THEN << SectionHeader(<<"[bulb] AI Summary">>), Line(ai_summary) >>
            ELSE << >>)
        \o (IF HasContent(jira_data) THEN add_jira_section(jira_data) ELSE << >>)
        \o (IF HasContent(github_data)
            THEN add_github_section(github_data)
                 \o (IF "pr_analyses" \in DOMAIN github_data
                        /\ github_data["pr_analyses"] # << >>
                     THEN add_pr_analyses_section(github_data["pr_analyses"])
                     ELSE << >>)
            ELSE << >>)
        \o (IF HasContent(db_data) THEN add_database_section(db_data) ELSE << >>)

\* the body that format_daily_digest builds
DigestBody(team, d, ai_summary) ==
    LET jira_data == DictGet(d, "jira", EmptyDict)
        github_data == DictGet(d, "github", EmptyDict)
        db_data == DictGet(d, "database", EmptyDict)
    IN  << [type |-> "TextBlock", text |-> <<"[sunrise] Good morning, ", team, "!">>,
            weight |-> "Bolder", size |-> "Large", wrap |-> TRUE],
           Line(<<"Here's your daily project digest:">>) >>
        \o (IF ai_summary # << >>
            THEN << SectionHeader(<<"[bulb] AI Summary">>), Line(ai_summary) >>
            ELSE << >>)
        \o (IF HasContent(jira_data) THEN add_jira_section(jira_data) ELSE << >>)
        \o (IF HasContent(github_data)
            THEN add_github_section(github_data)
                 \o (IF "pr_analyses" \in DOMAIN github_data
                        /\ github_data["pr_analyses"] # << >>
                     THEN add_pr_analyses_section(github_data["pr_analyses"])
                     ELSE << >>)
            ELSE << >>)
        \o (IF HasContent(db_data) THEN add_database_section(db_data) ELSE << >>)
        \o (IF ~HasContent(jira_data) /\ ~HasContent(github_data)
            THEN << QuietDay >> ELSE << >>)

format_daily_digest(team, d, ai_summary) ==
    [type |-> "message",
     attachments |->
        << [contentType |-> "application/vnd.microsoft.card.adaptive",
            content |-> [type |-> "AdaptiveCard",
                         body |-> DigestBody(team, d, ai_summary),
                         version |-> "1.2"]
                        @@ ("$schema" :>
                              "http://adaptivecards.io/schemas/adaptive-card.json")] >>]

\* the empty summary, or a summary text
AiSummaries == { << >>, <<"Two pull requests wait for review.">> }

FormatDailyDigest ==
    \E ai_summary \in AiSummaries :
        /\ op' = "format_daily_digest"
        /\ args' = [ai_summary |-> ai_summary]
        /\ ret' = Return(format_daily_digest(team_name, data, ai_summary))
        /\ calls' = << >>
        /\ last_prompt' = << >>
        /\ invoked' = << >>
        /\ UNCHANGED world

(***************************************************************************)
(* The formatter's specification.                                          *)
(***************************************************************************)
\* the lengths of the six lists: one of them anything up to MaxItems, the
\* others empty or over the display cap
LengthVectors ==
    UNION { { [base EXCEPT ![k] = n] : base \in [1..6 -> {0, 6}], n \in 0..MaxItems } :
            k \in 1..6 }

AnalysisText(n) == [i \in 1..n |-> ToString(i % 10)]

Analysis(i, n) ==
    [pr_number |-> i, repo |-> "r1", title |-> "title" \o ToString(i),
     author |-> "dev" \o ToString(i), analysis |-> AnalysisText(n),
     url |-> "url" \o ToString(i)]

AnalysisLengths == {0, 1, 499, 500, 501, 700}

AnalysisLists ==
    { << >> }
    \cup { << Analysis(1, n) >> : n \in AnalysisLengths }
    \cup { << Analysis(1, 501), Analysis(2, 500), Analysis(3, 10), Analysis(4, 700) >>,
           << [pr_number |-> 1, analysis |-> AnalysisText(502)] >>,
           << [pr_number |-> 1, repo |-> "r1", url |-> ""] >> }

JiraParts ==
    { EmptyDict, [jira |-> EmptyDict], [jira |-> JiraData(0, 0, 0)],
      [jira |-> JiraData(1, 0, 0)], [jira |-> JiraData(0, 0, 2)],
      [jira |-> [status_changes |-> << StatusChange(3) >>]] }

GithubParts ==
    { EmptyDict, [github |-> EmptyDict], [github |-> GithubData(0, 0, 0)],
      [github |-> GithubData(1, 0, 0)] }
    \cup { [github |-> GithubData(o, 0, 0) @@ [pr_analyses |-> a]] :
             o \in {0, 1}, a \in AnalysisLists }

DatabaseParts ==
    { EmptyDict, [database |-> EmptyDict],
      [database |-> [activity_stats |-> EmptyDict]],
      [database |-> [activity_stats |-> [weekly_prs |-> 4, weekly_tickets |-> 9]]],
      [database |-> [activity_stats |-> [weekly_prs |-> 4, weekly_tickets |-> 9,
                                         weekly_completed |-> 6],
                     team_metrics |-> [member_count |-> 8, github_users |-> 5]]],
      [database |-> [team_metrics |-> [member_count |-> 8]]] }

FormatterInputs ==
    { [jira |-> JiraData(v[1], v[2], v[3]), github |-> GithubData(v[4], v[5], v[6])] :
        v \in LengthVectors }
    \cup { j @@ g @@ db : j \in JiraParts, g \in GithubParts, db \in DatabaseParts }

FormatterInit ==
    /\ client = FALSE
    /\ repos = << << >> >>
    /\ ai_summarizer = FALSE
    /\ enable_flag = None
    /\ bedrock = Unwired
    /\ platform = NoPlatform("ok")
    /\ data \in FormatterInputs
    /\ team_name = "Platform"
    /\ op = "init"
    /\ args = EmptyDict
    /\ ret = Return(EmptyDict)
    /\ calls = << >>
    /\ last_prompt = << >>
    /\ invoked = << >>

FormatterNext ==
    \/ FormatDailyDigest

FormatterSpec == FormatterInit /\ [][FormatterNext]_vars

(***************************************************************************)
(* Properties of the formatter.                                            *)
(***************************************************************************)
\* the body of the card that format_daily_digest returned
Body == ret.value.attachments[1].content.body

TextOf(block) == IF "text" \in DOMAIN block THEN block.text ELSE << >>

IsQuietDay(block) ==
    TextOf(block) = <<"No updates found for today. It's a quiet day! [smile]">>

\* the section is not in the data, or every value in it is empty
AbsentOrAllEmpty(section) ==
    \/ section \notin DOMAIN data
    \/ \A k \in DOMAIN data[section] : data[section][k] = << >>

\* C8: format_daily_digest appends the one "No updates found for today.
\* It's a quiet day!" block exactly when the jira data is absent or
\* all-empty and the github data is absent or all-empty, whatever the
\* database data.
C8_QuietDayIffNoJiraNoGithub ==
    op = "format_daily_digest" =>
        LET quiet == { i \in 1..Len(Body) : IsQuietDay(Body[i]) } IN
        IF AbsentOrAllEmpty("jira") /\ AbsentOrAllEmpty("github")
        THEN quiet = { Len(Body) }
        ELSE quiet = {}

\* empty jira lists, empty github lists, database activity_stats present:
\* the database section is rendered and the quiet-day block follows it
C8_Witness ==
    /\ op = "format_daily_digest"
    /\ "jira" \in DOMAIN data /\ data.jira # EmptyDict
    /\ "github" \in DOMAIN data /\ data.github # EmptyDict
    /\ "database" \in DOMAIN data
    /\ "activity_stats" \in DOMAIN data.database
    /\ data.database.activity_stats # EmptyDict
    /\ \E i \in 1..Len(Body) : TextOf(Body[i]) = <<"[chart] Weekly Database Insights">>
    /\ IsQuietDay(Body[Len(Body)])

\* the six list categories: the fragment that starts the count line, the
\* one that ends it, and the words of the overflow line
ListCategories == {"new tickets", "blocked tasks", "completed tasks", "open PRs",
                   "recent merges", "urgent commits"}

CountLineOf(c, n) ==
    CASE c = "new tickets" ->
            <<"[inbox] ", ToString(n), " new tickets were created yesterday:">>
      [] c = "blocked tasks" ->
            <<"[warning] ", ToString(n), " tasks are currently blocked:">>
      [] c = "completed tasks" ->
            <<"[check] ", ToString(n), " tasks were completed yesterday:">>
      [] c = "open PRs" ->
            <<"[cycle] ", ToString(n), " open pull requests waiting for review:">>
      [] c = "recent merges" ->
            <<"[check] ", ToString(n), " pull requests were merged yesterday:">>
      [] c = "urgent commits" ->
            <<"[siren] ", ToString(n), " urgent commits detected yesterday:">>

OverflowWords(c) ==
    CASE c = "new tickets" -> " more new tickets"
      [] c = "blocked tasks" -> " more blocked tasks"
      [] c = "completed tasks" -> " more completed tasks"
      [] c = "open PRs" -> " more open PRs"
      [] c = "recent merges" -> " more merged PRs"
      [] c = "urgent commits" -> " more urgent commits"

ListIn(section, key) ==
    IF section \in DOMAIN data /\ key \in DOMAIN data[section]
    THEN data[section][key] ELSE << >>

\* the completed transitions of the status-change records
RECURSIVE CompletedCount(_)
CompletedCount(changes) ==
    IF changes = << >> THEN 0
    ELSE Cardinality({ k \in 1..Len(Head(changes).status_changes) :
                          Head(changes).status_changes[k].to \in {"Done", "Closed", "Resolved"} })
         + CompletedCount(Tail(changes))

\* the number of items the data holds in list category c
ItemsIn(c) ==
    CASE c = "new tickets" -> Len(ListIn("jira", "new_tickets"))
      [] c = "blocked tasks" -> Len(ListIn("jira", "blocked_tasks"))
      [] c = "completed tasks" -> CompletedCount(ListIn("jira", "status_changes"))
      [] c = "open PRs" -> Len(ListIn("github", "open_prs"))
      [] c = "recent merges" -> Len(ListIn("github", "recent_merges"))
      [] c = "urgent commits" -> Len(ListIn("github", "urgent_commits"))

IsItemLine(block) == TextOf(block) # << >> /\ TextOf(block)[1] = "(bullet) "

IsOverflowLine(block) == TextOf(block) # << >> /\ TextOf(block)[1] = "...and "

\* the item lines that directly follow block h
RECURSIVE ItemLinesAfter(_)
ItemLinesAfter(h) ==
    IF h + 1 <= Len(Body) /\ IsItemLine(Body[h + 1]) THEN 1 + ItemLinesAfter(h + 1)
    ELSE 0

\* C9: a list category holding N items is rendered as min(N, 5) item
\* lines, followed by the overflow line "...and {N-5} more {category}"
\* exactly when N > 5; a category holding nothing has no count line.
C9_FiveItemsThenOverflow ==
    op = "format_daily_digest" =>
        \A c \in ListCategories :
            LET N == ItemsIn(c)
                heads == { h \in 1..Len(Body) : TextOf(Body[h]) = CountLineOf(c, N) }
            IN  IF N = 0 THEN heads = {}
                ELSE /\ Cardinality(heads) = 1
                     /\ \A h \in heads :
                          LET shown == ItemLinesAfter(h)
                              next == h + shown + 1
                              overflow == next <= Len(Body) /\ IsOverflowLine(Body[next])
                          IN  /\ shown = (IF N < 5 THEN N ELSE 5)
                              /\ overflow <=> N > 5
                              /\ overflow =>
                                    /\ Body[next].text =
                                          <<"...and ", ToString(N - 5), OverflowWords(c)>>
                                    /\ ~(next + 1 <= Len(Body) /\ IsOverflowLine(Body[next + 1]))

\* seven open pull requests: five lines, then "...and 2 more open PRs"
C9_Witness ==
    /\ op = "format_daily_digest"
    /\ ItemsIn("open PRs") = 7
    /\ \E h \in 1..Len(Body) :
          /\ TextOf(Body[h]) = CountLineOf("open PRs", 7)
          /\ ItemLinesAfter(h) = 5
          /\ Body[h + 6].text = <<"...and ", "2", " more open PRs">>

\* the analyses that the digest renders: the first three of a non-empty
\* pr_analyses list, when the github data has any non-empty value
RenderedAnalyses ==
    IF ~AbsentOrAllEmpty("github") /\ "pr_analyses" \in DOMAIN data.github
    THEN SubSeq(data.github.pr_analyses, 1,
                IF Len(data.github.pr_analyses) < 3 THEN Len(data.github.pr_analyses) ELSE 3)
    ELSE << >>

\* the position of the j-th separator line "---": the analysis text of
\* the j-th rendered analysis is the block after it
Separators == { i \in 1..Len(Body) : TextOf(Body[i]) = <<"---">> }

NthSeparator(j) ==
    CHOOSE i \in Separators : Cardinality({ k \in Separators : k <= i }) = j

\* C10: a rendered analysis text of at most 500 characters is shown in
\* full, without ellipsis; a longer one is shown as its first 500
\* characters followed by "...".
C10_AnalysisCutAt500 ==
    op = "format_daily_digest" =>
        /\ Cardinality(Separators) = Len(RenderedAnalyses)
        /\ \A j \in 1..Len(RenderedAnalyses) :
              "analysis" \in DOMAIN RenderedAnalyses[j] =>
                  LET text == RenderedAnalyses[j].analysis
                      shown == Body[NthSeparator(j) + 1].text
                  IN  IF Len(text) <= 500 THEN shown = text
                      ELSE /\ Len(shown) = 501
                           /\ \A i \in 1..500 : shown[i] = text[i]
                           /\ shown[501] = "..."

\* a text of 501 characters was cut and one of exactly 500 was not
C10_Witness ==
    /\ op = "format_daily_digest"
    /\ Len(RenderedAnalyses) = 3
    /\ Len(RenderedAnalyses[1].analysis) = 501
    /\ Len(RenderedAnalyses[2].analysis) = 500
    /\ Len(Body[NthSeparator(1) + 1].text) = 501
    /\ Body[NthSeparator(1) + 1].text[501] = "..."
    /\ Body[NthSeparator(2) + 1].text = RenderedAnalyses[2].analysis


\* the text blocks of the body
TextBlocks == { k \in 1..Len(Body) : Body[k].type = "TextBlock" }

\* C13: in every payload of format_daily_digest every text block of the
\* body is marked as wrapping (wrap = true), and every overflow line
\* "...and {remaining} more {category}" has the subtle style
\* (isSubtle = true).
C13_EveryTextBlockWraps ==
    op = "format_daily_digest" =>
        \A k \in TextBlocks :
            /\ "wrap" \in DOMAIN Body[k] /\ Body[k].wrap
            /\ IsOverflowLine(Body[k]) =>
                  "isSubtle" \in DOMAIN Body[k] /\ Body[k].isSubtle


\* the texts that open the parts of the body, in build order
SectionTitles ==
    << <<"[sunrise] Good morning, ", team_name, "!">>,
       <<"Here's your daily project digest:">>,
       <<"[bulb] AI Summary">>,
       <<"[puzzle] Jira Updates">>,
       <<"[tools] GitHub Activity">>,
       <<"[magnifier] Pull Request Analyses">>,
       <<"[chart] Weekly Database Insights">>,
       <<"No updates found for today. It's a quiet day! [smile]">> >>

\* where in the body part i starts
StartsOf(i) == { k \in 1..Len(Body) : TextOf(Body[k]) = SectionTitles[i] }

\* C14: the body blocks of every payload are in the build order: greeting,
\* sub-header, AI Summary (only with a non-empty ai_summary), Jira Updates,
\* GitHub Activity, Pull Request Analyses (only after a GitHub Activity
\* section, with no other section between them, and only with a non-empty
\* pr_analyses list), Weekly Database Insights, quiet-day block; and no
\* part appears twice.
C14_FixedBuildOrder ==
    op = "format_daily_digest" =>
        /\ StartsOf(1) = {1}
        /\ StartsOf(2) = {2}
        /\ \A i \in 1..8 : Cardinality(StartsOf(i)) <= 1
        /\ \A i \in 1..8 : \A j \in (i + 1)..8 :
              \A a \in StartsOf(i) : \A b \in StartsOf(j) : a < b
        /\ StartsOf(3) # {} => args.ai_summary # << >>
        /\ StartsOf(6) # {} =>
              /\ StartsOf(5) # {}
              /\ "github" \in DOMAIN data
              /\ "pr_analyses" \in DOMAIN data.github
              /\ data.github.pr_analyses # << >>

\* a payload with every section: AI Summary, Jira Updates, GitHub
\* Activity, Pull Request Analyses and Weekly Database Insights
C14_Witness ==
    /\ op = "format_daily_digest"
    /\ \A i \in 1..7 : StartsOf(i) # {}
    /\ StartsOf(8) = {}

\* C23: every payload that format_daily_digest returns has exactly one
\* attachment; its body starts with the greeting header block followed by
\* the sub-header block and holds at least one further block that opens a
\* Jira section, opens a GitHub section or is the quiet-day block, so a
\* digest is never empty; and the quiet-day block never shares a body with
\* a "Jira Updates" or a "GitHub Activity" header.
C23_NeverEmptyNeverQuietWithSections ==
    (op = "format_daily_digest" /\ ret.kind = "return") =>
        /\ Len(ret.value.attachments) = 1
        /\ Len(Body) >= 3
        /\ TextOf(Body[1]) = <<"[sunrise] Good morning, ", team_name, "!">>
        /\ TextOf(Body[2]) = <<"Here's your daily project digest:">>
        /\ \E k \in 3..Len(Body) :
              \/ TextOf(Body[k]) = <<"[puzzle] Jira Updates">>
              \/ TextOf(Body[k]) = <<"[tools] GitHub Activity">>
              \/ IsQuietDay(Body[k])
        /\ (\E k \in 1..Len(Body) : IsQuietDay(Body[k])) =>
              \A k \in 1..Len(Body) :
                  /\ TextOf(Body[k]) # <<"[puzzle] Jira Updates">>
                  /\ TextOf(Body[k]) # <<"[tools] GitHub Activity">>

\* no data at all and no summary: the body is the greeting, the sub-header
\* and the quiet-day block
C23_Witness ==
    /\ op = "format_daily_digest"
    /\ data = EmptyDict
    /\ args.ai_summary = << >>
    /\ Len(ret.value.attachments) = 1
    /\ Len(Body) = 3
    /\ IsQuietDay(Body[3])

====
